---- MODULE Spec2Model ----
(***************************************************************************)
(* Topic-and-stance layer of the idea atlas backend                        *)
(* (backend/app/services/topic_layer.py, utils.py, main.py, db.py).        *)
(*                                                                         *)
(* Conventions of the model                                                *)
(*  - a text is a sequence of one-character strings; "\t" stands for any   *)
(*    whitespace character other than the plain space;                     *)
(*  - a UUID is a positive integer and a NULL id is 0;                      *)
(*  - an embedding is a vector of integers; a centroid is a vector of      *)
(*    rationals kept as [num |-> integer vector, den |-> positive integer];*)
(*  - a cosine, a similarity, a stance score and every threshold of        *)
(*    settings.py are fixed-point numbers in hundredths (0.62 is 62).      *)
(***************************************************************************)
EXTENDS Integers, Sequences, FiniteSets, TLC

(***************************************************************************)
(* Bounds of the model                                                     *)
(***************************************************************************)
\* requests served in one behaviour of the sequential specification
MaxRequests == 4
\* requests started in one behaviour of the concurrent specification
MaxRaceRequests == 3
\* requests served after the store was seeded, rebalance specification
MaxReclusterRequests == 3
\* ideas a seeding script may ingest
MaxSeedIdeas == 48
\* characters of a text, text specification
MaxTextChars == 5
\* calls of _upsert_topic_level, upsert specification
MaxUpsertCalls == 4
\* requests on a seeded store, repartition specification
MaxRepartitionRequests == 2
\* requests on a seeded store, nearby specification
MaxNearbyRequests == 2
\* POST /ideas requests on a store with legacy rows
MaxLegacyRequests == 3
\* requests on a seeded store, edge specification
MaxEdgeRequests == 3
\* POST /ideas requests on a seeded store, neighbour specification
MaxNeighborRequests == 3

(***************************************************************************)
(* Program constants                                                       *)
(***************************************************************************)
\* ingest_idea: len(text_value) < 5
MinTextLen == 5
\* ingest_idea: len(text_value) > 320
MaxTextLen == 320
\* InsightCreate.text: Field(min_length=5, max_length=320)
SchemaMinLen == 5
SchemaMaxLen == 320
\* settings (hundredths)
topic_similarity_threshold == 62
subtopic_similarity_threshold == 70
stance_confidence_margin == 4
opposing_alpha == 65
\* settings.topic_neighbor_top_k (TOPIC_NEIGHBOR_TOP_K)
topic_neighbor_top_k == 8
\* ingest_idea: needed = max(6, settings.topic_neighbor_top_k)
NeighborFloor == 6
\* retrieve_supportive / retrieve_opposing: per_scope_limit = max(top_k * 4, 24)
ScopeLimitFactor == 4
ScopeLimitFloor == 24
\* retrieve_relation_buckets: limit = max(top_k * 6, candidate_pool), and the
\* default of candidate_pool
PoolFactor == 6
DefaultCandidatePool == 24
\* settings.fallback_similarity_floor, in hundredths
fallback_similarity_floor == 33
\* settings.retrieval_candidate_pool
retrieval_candidate_pool == 600
\* _related_topic_ids: LIMIT 8
RelatedTopicLimit == 8
\* settings.recluster_min_points, settings.recluster_entropy_threshold (hundredths)
recluster_min_points == 24
recluster_entropy_threshold == 105
\* _kmeans: n_iter
KmeansIterations == 20
\* run_periodic_recluster: k = max(2, min(8, ...))
MinClusters == 2
MaxClusters == 8

\* None / NULL of an optional record, map, vector or string (written as the
\* empty tuple, which no present value of these types equals)
NoValue == << >>
\* the answer of an oracle call that raised
Fail == << >>

(***************************************************************************)
(* utils.py: text normalisation and the duplicate key                      *)
(***************************************************************************)
\* \s of the regular expressions and the characters str.strip() removes
IsWs(c) == c \in {" ", "\t"}

IsTerminator(c) == c \in {".", "!", "?"}

\* str.lower() on the characters of the model
LowerChar(c) == CASE c = "A" -> "a" [] c = "C" -> "c" [] c = "P" -> "p" [] OTHER -> c

Lower(s) == [i \in 1..Len(s) |-> LowerChar(s[i])]

\* re.sub(r"\s+", " ", s): every maximal run of whitespace becomes one space.
\* Each character is paired with the one before it; a whitespace that follows
\* a whitespace is dropped, every other whitespace becomes a space
KeepsChar(pair) == ~(IsWs(pair[1]) /\ IsWs(pair[2]))

CollapseWs(s) ==
    LET paired == [i \in 1..Len(s) |-> <<s[i], IF i > 1 THEN s[i - 1] ELSE "">>]
        kept == SelectSeq(paired, KeepsChar)
    IN [i \in 1..Len(kept) |-> IF IsWs(kept[i][1]) THEN " " ELSE kept[i][1]]

\* the index of the first character at or after i that is not whitespace
RECURSIVE FirstSolid(_, _)
FirstSolid(s, i) == IF i > Len(s) \/ ~IsWs(s[i]) THEN i ELSE FirstSolid(s, i + 1)

\* the index of the last character at or before i that is not whitespace
RECURSIVE LastSolid(_, _)
LastSolid(s, i) == IF i = 0 \/ ~IsWs(s[i]) THEN i ELSE LastSolid(s, i - 1)

\* str.strip()
Strip(s) == SubSeq(s, FirstSolid(s, 1), LastSolid(s, Len(s)))

\* the index of the last character at or before i that is not . ! or ?
RECURSIVE LastBody(_, _)
LastBody(s, i) == IF i = 0 \/ ~IsTerminator(s[i]) THEN i ELSE LastBody(s, i - 1)

\* re.sub(r"[.!?]+$", "", s)
StripTrailingTerminators(s) == SubSeq(s, 1, LastBody(s, Len(s)))

\* a variant that appends the full stop whatever the text ends in
NormalizeAlwaysAppend(text) == Append(Strip(CollapseWs(text)), ".")

normalize_insight_text(text) ==
    LET cleaned == Strip(CollapseWs(text))
    IN IF cleaned # << >> /\ IsTerminator(cleaned[Len(cleaned)])
       THEN cleaned
       ELSE Append(cleaned, ".")

insight_text_key(text) ==
    StripTrailingTerminators(CollapseWs(Lower(Strip(text))))

\* the expression of the unique index insights_text_norm_uidx and of dup_sql:
\* lower(regexp_replace(regexp_replace(text, '[.!?]+$', '', 'g'), '\s+', ' ', 'g'))
sql_text_key(text) ==
    Lower(CollapseWs(StripTrailingTerminators(text)))

(***************************************************************************)
(* Vector operations                                                       *)
(***************************************************************************)
Dot(a, b) == a[1] * b[1] + a[2] * b[2]

Abs(x) == IF x < 0 THEN -x ELSE x

RECURSIVE Gcd(_, _)
Gcd(a, b) == IF b = 0 THEN a ELSE Gcd(b, a % b)

\* a rational vector in lowest terms
Rat(num, den) ==
    LET g == Gcd(Gcd(Abs(num[1]), Abs(num[2])), den)
    IN [num |-> <<num[1] \div g, num[2] \div g>>, den |-> den \div g]

\* an embedding read as a centroid
AsCentroid(e) == [num |-> e, den |-> 1]

\* _running_mean: (old * old_n + new_vec) / max(old_n + 1, 1)
running_mean(old, old_n, new_vec) ==
    Rat(<<old.num[1] * old_n + new_vec[1] * old.den,
          old.num[2] * old_n + new_vec[2] * old.den>>,
        old.den * (IF old_n + 1 > 1 THEN old_n + 1 ELSE 1))

\* the largest x in lo..hi with x * x * n <= dd
RECURSIVE FloorRoot(_, _, _, _)
FloorRoot(lo, hi, n, dd) ==
    IF lo >= hi THEN lo
    ELSE LET mid == (lo + hi + 1) \div 2
         IN IF mid * mid * n <= dd THEN FloorRoot(mid, hi, n, dd)
            ELSE FloorRoot(lo, mid - 1, n, dd)

\* _cosine of two integer vectors, in hundredths truncated toward zero;
\* 0 when either norm is 0
cosine(a, b) ==
    LET d == Dot(a, b)
        n == Dot(a, a) * Dot(b, b)
        q == FloorRoot(0, 100, n, 10000 * d * d)
    IN IF n = 0 THEN 0 ELSE IF d < 0 THEN -q ELSE q

\* similarity of an embedding to a centroid (the cosine ignores the scale)
CentroidSim(e, c) == cosine(e, c.num)

(***************************************************************************)
(* Sequences of rows                                                       *)
(***************************************************************************)
Min(a, b) == IF a < b THEN a ELSE b
Max(a, b) == IF a > b THEN a ELSE b

\* s[:n]
Take(s, n) == SubSeq(s, 1, Min(n, Len(s)))

SeqIds(rows) == {rows[i].id : i \in 1..Len(rows)}

\* list.sort(key=similarity, reverse=True): stable, descending
RECURSIVE SortDesc(_)
SortDesc(rows) ==
    IF Len(rows) <= 1 THEN rows
    ELSE LET r == rows[Len(rows)]
             init == SortDesc(SubSeq(rows, 1, Len(rows) - 1))
             ahead == {i \in 1..Len(init) : init[i].similarity >= r.similarity}
             k == IF ahead = {} THEN 0 ELSE CHOOSE i \in ahead : \A j \in ahead : i >= j
         IN SubSeq(init, 1, k) \o <<r>> \o SubSeq(init, k + 1, Len(init))

\* list.sort(key=similarity): stable, ascending
RECURSIVE SortAsc(_)
SortAsc(rows) ==
    IF Len(rows) <= 1 THEN rows
    ELSE LET r == rows[Len(rows)]
             init == SortAsc(SubSeq(rows, 1, Len(rows) - 1))
             ahead == {i \in 1..Len(init) : init[i].similarity <= r.similarity}
             k == IF ahead = {} THEN 0 ELSE CHOOSE i \in ahead : \A j \in ahead : i >= j
         IN SubSeq(init, 1, k) \o <<r>> \o SubSeq(init, k + 1, Len(init))

\* ORDER BY embedding <=> :embedding ASC (ties: lower id first), as a sequence
RECURSIVE OrderByDistance(_)
OrderByDistance(rowset) ==
    IF rowset = {} THEN << >>
    ELSE LET best == CHOOSE r \in rowset : \A o \in rowset :
                        \/ r.similarity > o.similarity
                        \/ (r.similarity = o.similarity /\ r.id <= o.id)
         IN <<best>> \o OrderByDistance(rowset \ {best})

\* the loop shared by the merges: append the rows of a scope whose id is new
RECURSIVE AppendUnseen(_, _, _)
AppendUnseen(merged, seen, rows) ==
    IF rows = << >> THEN merged
    ELSE IF rows[1].id \in seen \/ rows[1].id \in SeqIds(merged)
         THEN AppendUnseen(merged, seen, Tail(rows))
         ELSE AppendUnseen(Append(merged, rows[1]), seen, Tail(rows))

(***************************************************************************)
(* Topic store (topics table).  T is the table: topic id -> row            *)
(***************************************************************************)
EmptyMap == << >>

\* _create_topic that drops parent_topic_id
NewTopicNoParent(level, name, embedding, parent_topic_id) ==
    [level |-> level, name |-> name, centroid |-> AsCentroid(embedding),
     n_points |-> 1, parent |-> 0, stance |-> EmptyMap]

\* _create_topic (the new row; name[:200] leaves the short names of the model alone)
NewTopic(level, name, embedding, parent_topic_id) ==
    [level |-> level, name |-> name, centroid |-> AsCentroid(embedding),
     n_points |-> 1, parent |-> parent_topic_id, stance |-> EmptyMap]

InScope(T, level, parent_topic_id) ==
    {t \in DOMAIN T : T[t].level = level /\ T[t].parent = parent_topic_id}

\* _topic_by_name: func.lower(Topic.name) == topic_name.lower(), .first()
topic_by_name(T, level, topic_name, parent_topic_id) ==
    LET hits == {t \in InScope(T, level, parent_topic_id) :
                    Lower(T[t].name) = Lower(topic_name)}
    IN IF hits = {} THEN 0 ELSE CHOOSE t \in hits : \A o \in hits : t <= o

\* _nearest_topic: ORDER BY centroid <=> embedding ASC LIMIT 1
nearest_topic(T, embedding, level, parent_topic_id) ==
    LET scope == InScope(T, level, parent_topic_id)
        sim == [t \in scope |-> CentroidSim(embedding, T[t].centroid)]
    IN IF scope = {} THEN [topic |-> 0, similarity |-> 0]
       ELSE LET best == CHOOSE t \in scope : \A o \in scope :
                            sim[t] > sim[o] \/ (sim[t] = sim[o] /\ t <= o)
            IN [topic |-> best, similarity |-> sim[best]]

UpdateCentroidNoCount(topic, embedding) ==
    [topic EXCEPT !.centroid = running_mean(topic.centroid, topic.n_points, embedding)]

\* a variant that counts the sample twice
UpdateCentroidCountTwice(topic, embedding) ==
    [topic EXCEPT !.centroid = running_mean(topic.centroid, topic.n_points, embedding),
                  !.n_points = topic.n_points + 2]

\* _update_topic_centroid
update_topic_centroid(topic, embedding) ==
    [topic EXCEPT !.centroid = running_mean(topic.centroid, topic.n_points, embedding),
                  !.n_points = topic.n_points + 1]

\* _upsert_topic_level that tries the nearest topic before the name
UpsertNearestFirst(T, newId, embedding, level, name, parent_topic_id, threshold) ==
    LET by_name == topic_by_name(T, level, name, parent_topic_id)
        near == nearest_topic(T, embedding, level, parent_topic_id)
    IN IF near.topic # 0 /\ near.similarity >= threshold
       THEN [topics |-> [T EXCEPT ![near.topic] = update_topic_centroid(T[near.topic], embedding)],
             id |-> near.topic, how |-> "nearest", next |-> newId]
       ELSE IF by_name # 0
       THEN [topics |-> [T EXCEPT ![by_name] = update_topic_centroid(T[by_name], embedding)],
             id |-> by_name, how |-> "name", next |-> newId]
       ELSE [topics |-> (newId :> NewTopic(level, name, embedding, parent_topic_id)) @@ T,
             id |-> newId, how |-> "created", next |-> newId + 1]

\* _upsert_topic_level; newId is the uuid a created topic gets, next the uuid
\* the next created topic gets
upsert_topic_level(T, newId, embedding, level, name, parent_topic_id, threshold) ==
    LET by_name == topic_by_name(T, level, name, parent_topic_id)
        near == nearest_topic(T, embedding, level, parent_topic_id)
    IN IF by_name # 0
       THEN [topics |-> [T EXCEPT ![by_name] = update_topic_centroid(T[by_name], embedding)],
             id |-> by_name, how |-> "name", next |-> newId]
       ELSE IF near.topic # 0 /\ near.similarity >= threshold
       THEN [topics |-> [T EXCEPT ![near.topic] = update_topic_centroid(T[near.topic], embedding)],
             id |-> near.topic, how |-> "nearest", next |-> newId]
       ELSE [topics |-> (newId :> NewTopic(level, name, embedding, parent_topic_id)) @@ T,
             id |-> newId, how |-> "created", next |-> newId + 1]

\* _get_stance_bucket: the bucket of the label; the legacy key "contra" reads as "con"
get_stance_bucket(topic, stance_label) ==
    IF stance_label \in DOMAIN topic.stance THEN topic.stance[stance_label]
    ELSE IF stance_label = "con" /\ "contra" \in DOMAIN topic.stance
         THEN topic.stance["contra"]
         ELSE NoValue

\* _get_stance_centroid
get_stance_centroid(topic, stance_label) ==
    LET bucket == get_stance_bucket(topic, stance_label)
    IN IF bucket = NoValue THEN NoValue ELSE bucket.centroid

\* a variant that counts the embedding into the bucket and keeps the old mean
UpdateStanceKeepMean(topic, embedding, stance_label) ==
    LET bucket == get_stance_bucket(topic, stance_label)
        fresh == IF bucket = NoValue \/ bucket.n_points <= 0
                 THEN [n_points |-> 1, centroid |-> AsCentroid(embedding)]
                 ELSE [n_points |-> bucket.n_points + 1, centroid |-> bucket.centroid]
        keys == (DOMAIN topic.stance \cup {stance_label})
                    \ (IF stance_label = "con" THEN {"contra"} ELSE {})
    IN [topic EXCEPT !.stance =
            [k \in keys |-> IF k = stance_label THEN fresh ELSE topic.stance[k]]]

\* _update_stance_centroid
update_stance_centroid(topic, embedding, stance_label) ==
    LET bucket == get_stance_bucket(topic, stance_label)
        fresh == IF bucket = NoValue \/ bucket.n_points <= 0
                 THEN [n_points |-> 1, centroid |-> AsCentroid(embedding)]
                 ELSE [n_points |-> bucket.n_points + 1,
                       centroid |-> running_mean(bucket.centroid, bucket.n_points, embedding)]
        keys == (DOMAIN topic.stance \cup {stance_label})
                    \ (IF stance_label = "con" THEN {"contra"} ELSE {})
    IN [topic EXCEPT !.stance =
            [k \in keys |-> IF k = stance_label THEN fresh ELSE topic.stance[k]]]

(***************************************************************************)
(* Stance                                                                  *)
(***************************************************************************)
STANCE_LABELS == {"pro", "neutral", "con"}

ConWords == {<<"c","o","n">>, <<"c","o","n","t","r","a">>,
             <<"a","g","a","i","n","s","t">>, <<"o","p","p","o","s","e","d">>}
ProWords == {<<"p","r","o">>, <<"s","u","p","p","o","r","t">>,
             <<"s","u","p","p","o","r","t","i","v","e">>,
             <<"i","n"," ","f","a","v","o","r">>}

NormalizeStanceNoStrip(value) ==
    LET raw == IF value = NoValue THEN << >> ELSE Lower(value)
    IN IF raw \in ConWords THEN "con"
       ELSE IF raw \in ProWords THEN "pro"
       ELSE "neutral"

\* _normalize_stance_label: (value or "").strip().lower()
normalize_stance_label(value) ==
    LET raw == IF value = NoValue THEN << >> ELSE Lower(Strip(value))
    IN IF raw \in ConWords THEN "con"
       ELSE IF raw \in ProWords THEN "pro"
       ELSE "neutral"

\* a or b of Python on optional centroids
OrElse(a, b) == IF a # NoValue THEN a ELSE b

AssignStanceFlipped(embedding, topic, parent_topic, llm_stance_hint) ==
    LET pro_centroid == OrElse(get_stance_centroid(topic, "pro"),
                               IF parent_topic # NoValue
                               THEN get_stance_centroid(parent_topic, "pro") ELSE NoValue)
        con_centroid == OrElse(get_stance_centroid(topic, "con"),
                               IF parent_topic # NoValue
                               THEN get_stance_centroid(parent_topic, "con") ELSE NoValue)
    IN IF pro_centroid # NoValue /\ con_centroid # NoValue
       THEN LET stance_score == CentroidSim(embedding, con_centroid)
                                    - CentroidSim(embedding, pro_centroid)
            IN IF Abs(stance_score) < stance_confidence_margin
               THEN [label |-> "neutral", score |-> stance_score]
               ELSE IF stance_score > 0 THEN [label |-> "pro", score |-> stance_score]
               ELSE [label |-> "con", score |-> stance_score]
       ELSE [label |-> normalize_stance_label(llm_stance_hint), score |-> 0]

\* _assign_stance
assign_stance(embedding, topic, parent_topic, llm_stance_hint) ==
    LET pro_centroid == OrElse(get_stance_centroid(topic, "pro"),
                               IF parent_topic # NoValue
                               THEN get_stance_centroid(parent_topic, "pro") ELSE NoValue)
        con_centroid == OrElse(get_stance_centroid(topic, "con"),
                               IF parent_topic # NoValue
                               THEN get_stance_centroid(parent_topic, "con") ELSE NoValue)
    IN IF pro_centroid # NoValue /\ con_centroid # NoValue
       THEN LET p == CentroidSim(embedding, pro_centroid)
                c == CentroidSim(embedding, con_centroid)
                stance_score == p - c
            IN IF Abs(stance_score) < stance_confidence_margin
               THEN [label |-> "neutral", score |-> stance_score]
               ELSE IF stance_score > 0 THEN [label |-> "pro", score |-> stance_score]
               ELSE [label |-> "con", score |-> stance_score]
       ELSE [label |-> normalize_stance_label(llm_stance_hint), score |-> 0]

(***************************************************************************)
(* Idea store (insights table).  I is the table: idea id -> row            *)
(***************************************************************************)
\* str(uuid)
UuidStr(id) == <<"uuid", id>>

\* dict.get(key) of a metadata map
MetaGet(meta, key) == IF meta # NoValue /\ key \in DOMAIN meta THEN meta[key] ELSE NoValue

\* a variant in which the stored keys win
MetaMergeKeepOld(old, incoming) == IF incoming = NoValue THEN old ELSE old @@ incoming

\* dict(old).update(incoming): incoming keys overwrite
MetaMerge(old, incoming) == IF incoming = NoValue THEN old ELSE incoming @@ old

\* the result row of the nearest-neighbour queries
IdeaRow(I, id, embedding) ==
    [id |-> id, text |-> I[id].text, topic_id |-> I[id].topic_id,
     subtopic_id |-> I[id].subtopic_id, stance_label |-> I[id].stance_label,
     embedding |-> I[id].embedding,
     similarity |-> cosine(I[id].embedding, embedding)]

\* _nearest_ideas_with_filters; topic_ids = {} , mid_topic_id = NoValue and
\* subtopic_id = 0 stand for the filters left out
nearest_ideas_with_filters(I, embedding, exclude_id, limit, topic_ids, mid_topic_id, subtopic_id) ==
    LET hits == {i \in DOMAIN I :
                    /\ i # exclude_id
                    /\ (topic_ids # {} => I[i].topic_id \in topic_ids)
                    /\ (mid_topic_id # NoValue =>
                            MetaGet(I[i].metadata, "mid_topic_id") = mid_topic_id)
                    /\ (subtopic_id # 0 => I[i].subtopic_id = subtopic_id)}
    IN Take(OrderByDistance({IdeaRow(I, i, embedding) : i \in hits}), limit)

\* the dup_sql lookup: ORDER BY created_at ASC LIMIT 1, 0 when no row matches
DupLookupNever(I, key) == 0

dup_lookup(I, key) ==
    LET hits == {i \in DOMAIN I : sql_text_key(I[i].text) = key}
    IN IF hits = {} THEN 0
       ELSE CHOOSE i \in hits : \A o \in hits :
                I[i].created_at < I[o].created_at
                    \/ (I[i].created_at = I[o].created_at /\ i <= o)

\* the unique index insights_text_norm_uidx refuses the row
UniqueViolationNever(I, text) == FALSE

unique_violation(I, text) ==
    \E i \in DOMAIN I : sql_text_key(I[i].text) = sql_text_key(text)

(***************************************************************************)
(* Edges (edges table).  E is the table: <<src, dst>> -> row               *)
(***************************************************************************)
\* db.merge(Edge(...)): insert or overwrite the row of the primary key
MergeEdge(E, src, dst, weight, edge_type) ==
    (<<src, dst>> :> [weight |-> weight, edge_type |-> edge_type]) @@ E

\* _upsert_similarity_edges
RECURSIVE upsert_similarity_edges(_, _, _)
upsert_similarity_edges(E, src_id, neighbors) ==
    IF neighbors = << >> THEN E
    ELSE LET row == neighbors[1]
             sim == Max(row.similarity, 1)
         IN upsert_similarity_edges(
                MergeEdge(MergeEdge(E, src_id, row.id, sim, "idea_similarity"),
                          row.id, src_id, sim, "idea_similarity"),
                src_id, Tail(neighbors))

(***************************************************************************)
(* Oracle answers                                                          *)
(***************************************************************************)
General == <<"g","e","n","e","r","a","l">>

\* _classify_topic_hierarchy: level1[:80], level2[:80]
TopicNameMaxLen == 80
\* _classify_topic_hierarchy: level3[:120]
LeafNameMaxLen == 120

\* _classify_topic_hierarchy on the JSON object the oracle returned, called
\* with topic_label = "" and canonical_claim = ""
classify_topic_hierarchy(result) ==
    LET level1 == IF Strip(result.level1) # << >> THEN Strip(result.level1) ELSE General
        level2 == IF Strip(result.level2) # << >> THEN Strip(result.level2) ELSE level1
        level3 == IF Strip(result.level3) # << >> THEN Strip(result.level3) ELSE level2
    IN <<Take(level1, TopicNameMaxLen), Take(level2, TopicNameMaxLen),
         Take(level3, LeafNameMaxLen)>>

(***************************************************************************)
(* Ingestion                                                               *)
(* D is the database as the session sees it: [ideas, topics, edges]        *)
(***************************************************************************)
Truthy(metadata_json) == metadata_json # NoValue /\ DOMAIN metadata_json # {}

\* the oracle calls of ingest_idea in their order, up to the n-th:
\* embed_text(text_value), then
\* _classify_topic_hierarchy(text_value, topic_label="", canonical_claim="")
OracleCalls(text_value, n) ==
    Take(<<[oracle |-> "embed_text", text |-> text_value,
            topic_label |-> << >>, canonical_claim |-> << >>],
           [oracle |-> "classify_topic_hierarchy", text |-> text_value,
            topic_label |-> << >>, canonical_claim |-> << >>]>>, n)

IngestResult(outcome, D, idea, topic, subtopic, lookups, calls) ==
    [outcome |-> outcome, db |-> D, idea |-> idea, topic |-> topic, subtopic |-> subtopic,
     dup_lookups |-> lookups, oracle_calls |-> calls,
     embed_calls |-> Cardinality({k \in 1..Len(calls) : calls[k].oracle = "embed_text"}),
     classify_calls |->
        Cardinality({k \in 1..Len(calls) : calls[k].oracle = "classify_topic_hierarchy"})]

\* a neighbour search that merges all three scopes, however many rows the
\* earlier ones gave
RouteNeighborsNoBreak(D, newIdea, text_value, embedding, id1, id2, id3, T, I) ==
    LET needed == Max(NeighborFloor, topic_neighbor_top_k)
        m3 == AppendUnseen(<< >>, {},
                  nearest_ideas_with_filters(I, embedding, newIdea, needed, {}, NoValue, id3))
        m2 == AppendUnseen(m3, {},
                  nearest_ideas_with_filters(I, embedding, newIdea, needed, {id1},
                                             UuidStr(id2), 0))
        m1 == AppendUnseen(m2, {},
                  nearest_ideas_with_filters(I, embedding, newIdea, needed, {id1},
                                             NoValue, 0))
    IN IF unique_violation(D.ideas, text_value)
       THEN IngestResult("IntegrityError", D, 0, 0, 0, 1, OracleCalls(text_value, 2))
       ELSE IngestResult("created",
                [ideas |-> I, topics |-> T,
                 edges |-> upsert_similarity_edges(D.edges, newIdea,
                               Take(SortDesc(m1), topic_neighbor_top_k))],
                newIdea, id1, id3, 1, OracleCalls(text_value, 2))

\* ingest_idea, neighbour search and edges: the three scopes are merged leaves
\* first until `needed` rows are there; then the flush of the new row
RouteNeighbors(D, newIdea, text_value, embedding, id1, id2, id3, T, I) ==
    LET needed == Max(NeighborFloor, topic_neighbor_top_k)
        m3 == AppendUnseen(<< >>, {},
                  nearest_ideas_with_filters(I, embedding, newIdea, needed, {}, NoValue, id3))
        m2 == IF Len(m3) >= needed THEN m3
              ELSE AppendUnseen(m3, {},
                       nearest_ideas_with_filters(I, embedding, newIdea, needed, {id1},
                                                  UuidStr(id2), 0))
        m1 == IF Len(m2) >= needed THEN m2
              ELSE AppendUnseen(m2, {},
                       nearest_ideas_with_filters(I, embedding, newIdea, needed, {id1},
                                                  NoValue, 0))
    IN IF unique_violation(D.ideas, text_value)
       THEN \* db.flush() raises IntegrityError; nothing catches it
            IngestResult("IntegrityError", D, 0, 0, 0, 1, OracleCalls(text_value, 2))
       ELSE IngestResult("created",
                [ideas |-> I, topics |-> T,
                 edges |-> upsert_similarity_edges(D.edges, newIdea,
                               Take(SortDesc(m1), topic_neighbor_top_k))],
                newIdea, id1, id3, 1, OracleCalls(text_value, 2))

\* ingest_idea, the Insight(...) row; keys of the client's metadata overwrite
\* the keys ingestion computes
NewIdea(now, text_value, metadata_json, embedding, hierarchy, id1, id2, id3, T, stance) ==
    [text |-> text_value, embedding |-> embedding,
     cluster_id |-> UuidStr(id3), topic_id |-> id1, subtopic_id |-> id3,
     stance_label |-> stance.label, stance_confidence |-> Abs(stance.score),
     created_at |-> now,
     metadata |->
        MetaMerge([stance_score |-> stance.score,
                   mid_topic_id |-> UuidStr(id2),
                   topic_path |-> <<T[id1].name, T[id2].name, T[id3].name>>,
                   level1 |-> hierarchy[1], level2 |-> hierarchy[2],
                   level3 |-> hierarchy[3],
                   retrieval_mode |-> "topic_cosine_only"],
                  metadata_json)]

\* ingest_idea, stance bucket update and insert of the row
RouteInsert(D, newIdea, now, text_value, metadata_json, embedding, hierarchy, id1, id2, id3, T, stance) ==
    RouteNeighbors(D, newIdea, text_value, embedding, id1, id2, id3,
        [T EXCEPT ![id3] = update_stance_centroid(@, embedding, stance.label)],
        (newIdea :> NewIdea(now, text_value, metadata_json, embedding, hierarchy,
                            id1, id2, id3, T, stance)) @@ D.ideas)

\* ingest_idea, stance assignment against the level-3 topic and its parent
RouteStance(D, newIdea, now, text_value, metadata_json, embedding, hierarchy, u1, u2, u3) ==
    RouteInsert(D, newIdea, now, text_value, metadata_json, embedding, hierarchy,
        u1.id, u2.id, u3.id, u3.topics,
        assign_stance(embedding, u3.topics[u3.id], u3.topics[u2.id],
                      IF Truthy(metadata_json) THEN MetaGet(metadata_json, "stance_hint")
                      ELSE NoValue))

\* ingest_idea, the level-3 upsert under the level-2 topic
RouteLevel3(D, newIdea, now, text_value, metadata_json, embedding, hierarchy, u1, u2) ==
    RouteStance(D, newIdea, now, text_value, metadata_json, embedding, hierarchy, u1, u2,
        upsert_topic_level(u2.topics, u2.next, embedding, 3, hierarchy[3], u2.id,
                           subtopic_similarity_threshold))

\* ingest_idea, the level-2 upsert under the level-1 topic
RouteLevel2(D, newIdea, now, text_value, metadata_json, embedding, hierarchy, u1) ==
    RouteLevel3(D, newIdea, now, text_value, metadata_json, embedding, hierarchy, u1,
        upsert_topic_level(u1.topics, u1.next, embedding, 2, hierarchy[2], u1.id,
                           subtopic_similarity_threshold))

\* ingest_idea from the first upsert on (the text is new, the oracle answered)
ingest_route(D, newIdea, newTopic, now, text_value, metadata_json, embedding, hierarchy) ==
    RouteLevel2(D, newIdea, now, text_value, metadata_json, embedding, hierarchy,
        upsert_topic_level(D.topics, newTopic, embedding, 1, hierarchy[1], 0,
                           topic_similarity_threshold))

IngestNewSwallowOracle(D, newIdea, newTopic, now, text_value, metadata_json, embedding, result) ==
    IF embedding = Fail THEN IngestResult("OracleError", D, 0, 0, 0, 1, OracleCalls(text_value, 1))
    ELSE ingest_route(D, newIdea, newTopic, now, text_value, metadata_json, embedding,
                      IF result = Fail THEN <<General, General, General>>
                      ELSE classify_topic_hierarchy(result))

\* the embedding is asked for the text behind a topic label
IngestNewPrefixedEmbedding(D, newIdea, newTopic, now, text_value, metadata_json, embedding, result) ==
    LET r == IF embedding = Fail
             THEN IngestResult("OracleError", D, 0, 0, 0, 1, OracleCalls(text_value, 1))
             ELSE IF result = Fail
             THEN IngestResult("OracleError", D, 0, 0, 0, 1, OracleCalls(text_value, 2))
             ELSE ingest_route(D, newIdea, newTopic, now, text_value, metadata_json,
                               embedding, classify_topic_hierarchy(result))
    IN [r EXCEPT !.oracle_calls[1].text = General \o <<":", " ">> \o @]

\* ingest_idea after the duplicate branch did not return: embed, classify, route.
\* embedding and result are the oracle's answers, Fail when the call raises
ingest_new(D, newIdea, newTopic, now, text_value, metadata_json, embedding, result) ==
    IF embedding = Fail THEN IngestResult("OracleError", D, 0, 0, 0, 1, OracleCalls(text_value, 1))
    ELSE IF result = Fail THEN IngestResult("OracleError", D, 0, 0, 0, 1, OracleCalls(text_value, 2))
    ELSE ingest_route(D, newIdea, newTopic, now, text_value, metadata_json, embedding,
                      classify_topic_hierarchy(result))

\* ingest_idea, the duplicate branch: metadata merge, then the topics of the
\* existing row; parent and subtopic are topic ids, 0 for None
IngestDuplicate(D, newIdea, newTopic, now, text_value, metadata_json, embedding, result, existing_id, Dm, parent, subtopic) ==
    IF parent = 0 \/ subtopic = 0
    THEN \* legacy row without hierarchy: the regular path, metadata merge pending
         ingest_new(Dm, newIdea, newTopic, now, text_value, metadata_json, embedding, result)
    ELSE IngestResult("duplicate", Dm, existing_id, parent, subtopic, 1, << >>)

\* the topic id when the row exists, 0 for one_or_none() = None
TopicOrNone(T, id) == IF id \in DOMAIN T THEN id ELSE 0

\* ingest_idea after the duplicate lookup; existing_id = 0 when no row matched
IngestLookup(D, newIdea, newTopic, now, text_value, metadata_json, embedding, result, existing_id) ==
    IF existing_id = 0
    THEN ingest_new(D, newIdea, newTopic, now, text_value, metadata_json, embedding, result)
    ELSE IngestDuplicate(D, newIdea, newTopic, now, text_value, metadata_json, embedding,
            result, existing_id,
            IF Truthy(metadata_json)
            THEN [D EXCEPT !.ideas[existing_id].metadata = MetaMerge(@, metadata_json)]
            ELSE D,
            IF TopicOrNone(D.topics, D.ideas[existing_id].topic_id) = 0
                 /\ TopicOrNone(D.topics, D.ideas[existing_id].subtopic_id) # 0
            THEN TopicOrNone(D.topics, D.topics[D.ideas[existing_id].subtopic_id].parent)
            ELSE TopicOrNone(D.topics, D.ideas[existing_id].topic_id),
            TopicOrNone(D.topics, D.ideas[existing_id].subtopic_id))

\* ingest_idea on the normalized text: length check, then the duplicate lookup
IngestText(D, newIdea, newTopic, now, text_value, metadata_json, embedding, result) ==
    IF Len(text_value) < MinTextLen \/ Len(text_value) > MaxTextLen
    THEN IngestResult("ValueError", D, 0, 0, 0, 0, << >>)
    ELSE IngestLookup(D, newIdea, newTopic, now, text_value, metadata_json, embedding,
                      result, dup_lookup(D.ideas, insight_text_key(text_value)))

IngestIdeaCheckRawLength(D, newIdea, newTopic, now, text_input, metadata_json, embedding, result) ==
    IF Len(text_input) < MinTextLen \/ Len(text_input) > MaxTextLen
    THEN IngestResult("ValueError", D, 0, 0, 0, 0, << >>)
    ELSE IngestLookup(D, newIdea, newTopic, now, normalize_insight_text(text_input),
                      metadata_json, embedding, result,
                      dup_lookup(D.ideas,
                                 insight_text_key(normalize_insight_text(text_input))))

\* ingest_idea
ingest_idea(D, newIdea, newTopic, now, text_input, metadata_json, embedding, result) ==
    IngestText(D, newIdea, newTopic, now, normalize_insight_text(text_input),
               metadata_json, embedding, result)

(***************************************************************************)
(* Retrieval                                                               *)
(***************************************************************************)
\* stance_label=None of the scope queries: no stance filter
AnyStance == ""

StanceOk(row_label, stance_label) == stance_label = AnyStance \/ row_label = stance_label

\* _nearest_ideas_same_subtree
nearest_ideas_same_subtree(I, embedding, subtopic_id, exclude_id, limit, stance_label) ==
    LET hits == {i \in DOMAIN I : /\ I[i].subtopic_id = subtopic_id
                                  /\ i # exclude_id
                                  /\ StanceOk(I[i].stance_label, stance_label)}
    IN Take(OrderByDistance({IdeaRow(I, i, embedding) : i \in hits}), limit)

\* _nearest_ideas_same_level2: JOIN topics t ON t.id = i.subtopic_id
\*                                          AND t.parent_topic_id = :level2_id
nearest_ideas_same_level2(I, T, embedding, level2_topic_id, exclude_id, limit, stance_label) ==
    LET hits == {i \in DOMAIN I : /\ I[i].subtopic_id \in DOMAIN T
                                  /\ T[I[i].subtopic_id].parent = level2_topic_id
                                  /\ i # exclude_id
                                  /\ StanceOk(I[i].stance_label, stance_label)}
    IN Take(OrderByDistance({IdeaRow(I, i, embedding) : i \in hits}), limit)

\* _nearest_ideas_same_level1
nearest_ideas_same_level1(I, embedding, topic_id, exclude_id, limit, stance_label) ==
    LET hits == {i \in DOMAIN I : /\ I[i].topic_id = topic_id
                                  /\ i # exclude_id
                                  /\ StanceOk(I[i].stance_label, stance_label)}
    IN Take(OrderByDistance({IdeaRow(I, i, embedding) : i \in hits}), limit)

\* _merge_candidates_hierarchical
RECURSIVE MergeHierarchicalFrom(_, _, _, _)
MergeHierarchicalFrom(merged, scopes, exclude_ids, top_k) ==
    IF scopes = << >> THEN Take(merged, top_k)
    ELSE LET grown == SortDesc(AppendUnseen(merged, exclude_ids, scopes[1]))
         IN IF Len(grown) >= top_k THEN Take(grown, top_k)
            ELSE MergeHierarchicalFrom(grown, Tail(scopes), exclude_ids, top_k)

\* all scopes merged before the sort, as _merge_candidates_by_similarity does
MergeCandidatesBySimilarity(scopes, exclude_ids, top_k) ==
    LET all == IF Len(scopes) = 1 THEN scopes[1]
               ELSE IF Len(scopes) = 2 THEN scopes[1] \o scopes[2]
               ELSE scopes[1] \o scopes[2] \o scopes[3]
    IN Take(SortDesc(AppendUnseen(<< >>, exclude_ids, all)), top_k)

merge_candidates_hierarchical(scopes, exclude_ids, top_k) ==
    MergeHierarchicalFrom(<< >>, scopes, exclude_ids, top_k)

\* the row without its embedding: cleaned.pop("embedding", None)
Cleaned(row) == [k \in DOMAIN row \ {"embedding"} |-> row[k]]

\* _dedupe_and_trim
RECURSIVE DedupeFrom(_, _, _, _)
DedupeFrom(out, seen, rows, top_k) ==
    IF rows = << >> \/ Len(out) >= top_k THEN out
    ELSE LET key == insight_text_key(rows[1].text)
         IN IF key = << >> \/ key \in seen
            THEN DedupeFrom(out, seen, Tail(rows), top_k)
            ELSE DedupeFrom(Append(out, Cleaned(rows[1])), seen \cup {key}, Tail(rows), top_k)

dedupe_and_trim(rows, top_k) == DedupeFrom(<< >>, {}, rows, top_k)

\* the three stance-filtered scopes of retrieve_supportive / retrieve_opposing
StanceScopes(I, T, seed_id, top_k, stance_label) ==
    LET seed == I[seed_id]
        per_scope_limit == Max(top_k * ScopeLimitFactor, ScopeLimitFloor)
        subtopic == IF seed.subtopic_id \in DOMAIN T THEN seed.subtopic_id ELSE 0
    IN (IF seed.subtopic_id # 0
        THEN <<nearest_ideas_same_subtree(I, seed.embedding, seed.subtopic_id, seed_id,
                                          per_scope_limit, stance_label)>>
        ELSE << >>)
       \o (IF subtopic # 0 /\ T[subtopic].parent # 0
           THEN <<nearest_ideas_same_level2(I, T, seed.embedding, T[subtopic].parent, seed_id,
                                            per_scope_limit, stance_label)>>
           ELSE << >>)
       \o <<nearest_ideas_same_level1(I, seed.embedding, seed.topic_id, seed_id,
                                      per_scope_limit, stance_label)>>

\* what the call of _nearest_ideas_same_subtree was given, NoValue when not called
Level3Query(I, seed_id, stance_label) ==
    IF I[seed_id].subtopic_id # 0
    THEN [subtopic_id |-> I[seed_id].subtopic_id, stance_label |-> stance_label]
    ELSE NoValue

RetrievalResult(rows, l3_query) == [rows |-> rows, l3_query |-> l3_query]

\* retrieve_supportive
retrieve_supportive(I, T, idea_id, top_k) ==
    IF idea_id \notin DOMAIN I \/ I[idea_id].topic_id = 0 THEN RetrievalResult(<< >>, NoValue)
    ELSE LET scopes == StanceScopes(I, T, idea_id, top_k, I[idea_id].stance_label)
             rows == merge_candidates_hierarchical(scopes, {idea_id}, top_k)
         IN RetrievalResult(dedupe_and_trim(rows, top_k),
                            Level3Query(I, idea_id, I[idea_id].stance_label))

OppositeStanceSame(stance_label) == stance_label

\* retrieve_opposing: "con" if seed.stance_label == "pro" else "pro"
opposite_stance(stance_label) == IF stance_label = "pro" THEN "con" ELSE "pro"

\* the rescoring loop of retrieve_opposing; the blended similarity is kept in
\* ten-thousandths (alpha and both cosines are in hundredths)
Rescored(rows, a, opposite_centroid) ==
    [i \in 1..Len(rows) |->
        [rows[i] EXCEPT !.similarity =
            a * rows[i].similarity
                + (100 - a) * CentroidSim(rows[i].embedding, opposite_centroid)]]

\* retrieve_opposing
retrieve_opposing(I, T, idea_id, top_k, a) ==
    IF idea_id \notin DOMAIN I \/ I[idea_id].topic_id = 0 THEN RetrievalResult(<< >>, NoValue)
    ELSE LET seed == I[idea_id]
             opp == opposite_stance(seed.stance_label)
             scopes == StanceScopes(I, T, idea_id, top_k, opp)
             rows == merge_candidates_hierarchical(scopes, {idea_id}, top_k)
             subtopic == IF seed.subtopic_id \in DOMAIN T THEN seed.subtopic_id ELSE 0
             parent == IF subtopic # 0 /\ T[subtopic].parent \in DOMAIN T
                       THEN T[subtopic].parent ELSE 0
             opposite_centroid ==
                 IF subtopic = 0 THEN NoValue
                 ELSE OrElse(get_stance_centroid(T[subtopic], opp),
                             IF parent # 0 THEN get_stance_centroid(T[parent], opp)
                             ELSE NoValue)
             sorted == IF opposite_centroid # NoValue
                       THEN SortDesc(Rescored(rows, a, opposite_centroid))
                       ELSE SortAsc(rows)
         IN RetrievalResult(dedupe_and_trim(sorted, top_k), Level3Query(I, idea_id, opp))

\* a search that leaves the seed among the rows
NearestIdeasInTopicsWithSeed(I, embedding, topic_ids, exclude_id, limit) ==
    Take(OrderByDistance({IdeaRow(I, i, embedding) :
                             i \in {j \in DOMAIN I : I[j].topic_id \in topic_ids}}), limit)

\* _nearest_ideas_in_topics; topic_ids is the set of the list's elements
nearest_ideas_in_topics(I, embedding, topic_ids, exclude_id, limit) ==
    IF topic_ids = {} THEN << >>
    ELSE Take(OrderByDistance({IdeaRow(I, i, embedding) :
                  i \in {j \in DOMAIN I : I[j].topic_id \in topic_ids /\ j # exclude_id}}),
              limit)

\* a variant that takes every level-1 topic at or above the floor
RelatedTopicIdsNoLimit(T, seed_topic_id, seed_embedding) ==
    LET rows == OrderByDistance({[id |-> t,
                                  similarity |-> CentroidSim(seed_embedding, T[t].centroid)] :
                                     t \in {u \in DOMAIN T : T[u].level = 1}})
        out == SelectSeq(rows, LAMBDA r : r.id = seed_topic_id
                                            \/ r.similarity >= fallback_similarity_floor)
        ids == << >> \o [k \in 1..Len(out) |-> out[k].id]
    IN IF seed_topic_id \in SeqIds(out) THEN ids ELSE <<seed_topic_id>> \o ids

\* _related_topic_ids: the level-1 topics nearest the seed's embedding, LIMIT
\* 8, those at or above the floor and the seed's own kept; the seed's own
\* topic is put first when the eight do not have it
related_topic_ids(T, seed_topic_id, seed_embedding) ==
    LET rows == Take(OrderByDistance({[id |-> t,
                                       similarity |-> CentroidSim(seed_embedding, T[t].centroid)] :
                                          t \in {u \in DOMAIN T : T[u].level = 1}}),
                     RelatedTopicLimit)
        out == SelectSeq(rows, LAMBDA r : r.id = seed_topic_id
                                            \/ r.similarity >= fallback_similarity_floor)
        ids == << >> \o [k \in 1..Len(out) |-> out[k].id]
    IN IF seed_topic_id \in SeqIds(out) THEN ids ELSE <<seed_topic_id>> \o ids

\* retrieve_nearby; topic_ids is what _nearest_ideas_in_topics was given
retrieve_nearby(I, T, idea_id, top_k) ==
    IF idea_id \notin DOMAIN I \/ I[idea_id].topic_id = 0
    THEN [rows |-> << >>, topic_ids |-> << >>]
    ELSE LET topic_ids == related_topic_ids(T, I[idea_id].topic_id, I[idea_id].embedding)
             rows == nearest_ideas_in_topics(I, I[idea_id].embedding,
                         {topic_ids[k] : k \in 1..Len(topic_ids)}, idea_id,
                         Max(top_k, retrieval_candidate_pool))
         IN [rows |-> dedupe_and_trim(SortDesc(rows), top_k), topic_ids |-> topic_ids]

(***************************************************************************)
(* Relation buckets (idea_relations table).  R is the table:               *)
(* <<src_id, dst_id>> -> [relation_label, confidence]                      *)
(***************************************************************************)
\* _classify_pair_relation on the JSON object chat_json returned: the label is
\* stripped, lower-cased and unknown labels become neutral; the confidence
\* (hundredths) defaults to 0 and is clamped to [0, 1]
classify_pair_relation(result) ==
    LET raw == MetaGet(result, "relation_label")
        label == IF raw = NoValue THEN << >> ELSE Lower(Strip(raw))
    IN [relation_label |-> IF label = <<"s","u","p","p","o","r","t">> THEN "support"
                           ELSE IF label = <<"o","p","p","o","s","e">> THEN "oppose"
                           ELSE "neutral",
        confidence |-> IF "confidence" \in DOMAIN result
                       THEN Max(0, Min(100, result.confidence)) ELSE 0]

\* the cache that reads the row of the reversed pair as well
GetOrCreateRelationSymmetric(R, seed_id, candidate_id, answer) ==
    LET hit == IF <<seed_id, candidate_id>> \in DOMAIN R THEN <<seed_id, candidate_id>>
               ELSE <<candidate_id, seed_id>>
    IN IF hit \in DOMAIN R
       THEN [failed |-> FALSE, called |-> FALSE, answer |-> answer, relations |-> R,
             label |-> R[hit].relation_label, confidence |-> R[hit].confidence]
       ELSE IF answer = Fail
       THEN [failed |-> TRUE, called |-> TRUE, answer |-> answer, relations |-> R,
             label |-> "neutral", confidence |-> 0]
       ELSE [failed |-> FALSE, called |-> TRUE, answer |-> answer,
             relations |-> (<<seed_id, candidate_id>> :> classify_pair_relation(answer)) @@ R,
             label |-> classify_pair_relation(answer).relation_label,
             confidence |-> classify_pair_relation(answer).confidence]

\* a variant that returns the oracle's judgment without storing its row
GetOrCreateRelationNoStore(R, seed_id, candidate_id, answer) ==
    IF <<seed_id, candidate_id>> \in DOMAIN R
    THEN [failed |-> FALSE, called |-> FALSE, answer |-> answer, relations |-> R,
          label |-> R[<<seed_id, candidate_id>>].relation_label,
          confidence |-> R[<<seed_id, candidate_id>>].confidence]
    ELSE IF answer = Fail
    THEN [failed |-> TRUE, called |-> TRUE, answer |-> answer, relations |-> R,
          label |-> "neutral", confidence |-> 0]
    ELSE [failed |-> FALSE, called |-> TRUE, answer |-> answer, relations |-> R,
          label |-> classify_pair_relation(answer).relation_label,
          confidence |-> classify_pair_relation(answer).confidence]

\* _get_or_create_relation: the cached row of the ordered pair, else the
\* oracle's answer, merged into the table and flushed.  answer is what
\* chat_json returns for the pair, Fail when it raises: nothing catches the
\* exception, so the call fails with it
get_or_create_relation(R, seed_id, candidate_id, answer) ==
    IF <<seed_id, candidate_id>> \in DOMAIN R
    THEN [failed |-> FALSE, called |-> FALSE, answer |-> answer, relations |-> R,
          label |-> R[<<seed_id, candidate_id>>].relation_label,
          confidence |-> R[<<seed_id, candidate_id>>].confidence]
    ELSE IF answer = Fail
    THEN [failed |-> TRUE, called |-> TRUE, answer |-> answer, relations |-> R,
          label |-> "neutral", confidence |-> 0]
    ELSE [failed |-> FALSE, called |-> TRUE, answer |-> answer,
          relations |-> (<<seed_id, candidate_id>> :> classify_pair_relation(answer)) @@ R,
          label |-> classify_pair_relation(answer).relation_label,
          confidence |-> classify_pair_relation(answer).confidence]

\* _upsert_relation_edges (allow_write is always true: the candidates were
\* selected by the seed's topic_id); the weight is in hundredths
\* _upsert_relation_edges that writes the edge src -> dst only
UpsertRelationEdgesOneWay(E, src_id, dst_id, relation_label, confidence, similarity) ==
    IF relation_label \notin {"support", "oppose"} THEN E
    ELSE MergeEdge(E, src_id, dst_id,
                   Max(0, Min(100, (55 * confidence + 45 * similarity) \div 100)),
                   relation_label)

\* _upsert_relation_edges that stores the blended weight without clamping it
UpsertRelationEdgesNoClamp(E, src_id, dst_id, relation_label, confidence, similarity) ==
    IF relation_label \notin {"support", "oppose"} THEN E
    ELSE MergeEdge(MergeEdge(E, src_id, dst_id,
                             (55 * confidence + 45 * similarity) \div 100, relation_label),
                   dst_id, src_id, (55 * confidence + 45 * similarity) \div 100,
                   relation_label)

upsert_relation_edges(E, src_id, dst_id, relation_label, confidence, similarity) ==
    IF relation_label \notin {"support", "oppose"} THEN E
    ELSE LET weight == Max(0, Min(100, (55 * confidence + 45 * similarity) \div 100))
         IN MergeEdge(MergeEdge(E, src_id, dst_id, weight, relation_label),
                      dst_id, src_id, weight, relation_label)

\* retrieve_relation_buckets, the body of the loop for one candidate row; g is
\* what _get_or_create_relation returned for it
RelationStep(acc, seed_id, row, g) ==
    LET call == [src_id |-> seed_id, dst_id |-> row.id, answer |-> g.answer]
        enriched == row @@ [relation_label |-> g.label, relation_confidence |-> g.confidence]
    IN IF g.failed THEN [acc EXCEPT !.failed = TRUE, !.calls = Append(@, call)]
       ELSE [failed |-> FALSE,
             relations |-> g.relations,
             edges |-> upsert_relation_edges(acc.edges, seed_id, row.id, g.label,
                                             g.confidence, row.similarity),
             support_rows |-> IF g.label = "support" THEN Append(acc.support_rows, enriched)
                              ELSE acc.support_rows,
             oppose_rows |-> IF g.label = "oppose" THEN Append(acc.oppose_rows, enriched)
                             ELSE acc.oppose_rows,
             neutral_rows |-> IF g.label \notin {"support", "oppose"}
                              THEN Append(acc.neutral_rows, enriched)
                              ELSE acc.neutral_rows,
             calls |-> IF g.called THEN Append(acc.calls, call) ELSE acc.calls]

\* retrieve_relation_buckets, the loop over the candidates; answers gives the
\* oracle's answer for each candidate id
RECURSIVE RelationLoop(_, _, _, _)
RelationLoop(acc, seed_id, rows, answers) ==
    IF rows = << >> \/ acc.failed THEN acc
    ELSE RelationLoop(
            RelationStep(acc, seed_id, rows[1],
                get_or_create_relation(acc.relations, seed_id, rows[1].id,
                                       answers[rows[1].id])),
            seed_id, Tail(rows), answers)

\* list.sort(key=(relation_confidence, similarity), reverse=True): stable
RECURSIVE SortByConfidence(_)
SortByConfidence(rows) ==
    IF Len(rows) <= 1 THEN rows
    ELSE LET r == rows[Len(rows)]
             init == SortByConfidence(SubSeq(rows, 1, Len(rows) - 1))
             ahead == {i \in 1..Len(init) :
                          \/ init[i].relation_confidence > r.relation_confidence
                          \/ /\ init[i].relation_confidence = r.relation_confidence
                             /\ init[i].similarity >= r.similarity}
             k == IF ahead = {} THEN 0 ELSE CHOOSE i \in ahead : \A j \in ahead : i >= j
         IN SubSeq(init, 1, k) \o <<r>> \o SubSeq(init, k + 1, Len(init))

\* retrieve_relation_buckets, the sorts and the three buckets of the answer
RelationBuckets(acc, top_k) ==
    [failed |-> acc.failed, relations |-> acc.relations, edges |-> acc.edges,
     calls |-> acc.calls,
     supportive |-> dedupe_and_trim(SortByConfidence(acc.support_rows), top_k),
     opposing |-> dedupe_and_trim(SortByConfidence(acc.oppose_rows), top_k),
     neutral |-> dedupe_and_trim(SortDesc(acc.neutral_rows), top_k)]

\* retrieve_relation_buckets on the tables the session sees
retrieve_relation_buckets(I, R, E, idea_id, top_k, candidate_pool, answers) ==
    RelationBuckets(
        RelationLoop(
            [failed |-> FALSE, relations |-> R, edges |-> E, calls |-> << >>,
             support_rows |-> << >>, oppose_rows |-> << >>, neutral_rows |-> << >>],
            idea_id,
            IF idea_id \notin DOMAIN I \/ I[idea_id].topic_id = 0 THEN << >>
            ELSE nearest_ideas_with_filters(I, I[idea_id].embedding, idea_id,
                     Max(top_k * PoolFactor, candidate_pool), {I[idea_id].topic_id},
                     NoValue, 0),
            answers),
        top_k)

(***************************************************************************)
(* Rebalance job                                                           *)
(***************************************************************************)
\* math.log(n) for n = 1..40, in millionths
LnMicro ==
    <<0, 693147, 1098612, 1386294, 1609438, 1791759, 1945910, 2079442,
      2197225, 2302585, 2397895, 2484907, 2564949, 2639057, 2708050, 2772589,
      2833213, 2890372, 2944439, 2995732, 3044522, 3091042, 3135494, 3178054,
      3218876, 3258097, 3295837, 3332205, 3367296, 3401197, 3433987, 3465736,
      3496508, 3526361, 3555348, 3583519, 3610918, 3637586, 3663562, 3688879>>

\* (a list built by a comprehension is written << >> \o [j \in 1..n |-> ...])
\* the rows of a query without ORDER BY, taken in the order of their ids
RECURSIVE Ascending(_)
Ascending(S) ==
    IF S = {} THEN << >>
    ELSE LET m == CHOOSE x \in S : \A y \in S : x <= y
         IN <<m>> \o Ascending(S \ {m})

\* the sum of c * log(c) over the counts of the labels in `values`
RECURSIVE SumCLogC(_, _)
SumCLogC(labels, values) ==
    IF values = {} THEN 0
    ELSE LET v == CHOOSE x \in values : TRUE
             c == Cardinality({i \in 1..Len(labels) : labels[i] = v})
         IN c * LnMicro[c] + SumCLogC(labels, values \ {v})

\* _assignment_entropy, in millionths: -sum p log p = log(total) - sum(c log c) / total
assignment_entropy(labels) ==
    IF Len(labels) <= 1 THEN 0
    ELSE (Len(labels) * LnMicro[Len(labels)]
            - SumCLogC(labels, {labels[i] : i \in 1..Len(labels)})) \div Len(labels)

\* the mean of the vectors at the indices idxs, as a centroid
RECURSIVE VecSum(_, _)
VecSum(vectors, idxs) ==
    IF idxs = {} THEN <<0, 0>>
    ELSE LET i == CHOOSE x \in idxs : TRUE
             rest == VecSum(vectors, idxs \ {i})
         IN <<vectors[i][1] + rest[1], vectors[i][2] + rest[2]>>

MeanOf(vectors, idxs) == Rat(VecSum(vectors, idxs), Cardinality(idxs))

\* np.argmin of the squared Euclidean distances of e to the centroids: the
\* first index of the least distance.  The distance to the centroid num/den is
\* dist[i] / den^2
Argmin(e, centroids) ==
    LET dist == [i \in 1..Len(centroids) |->
                    (e[1] * centroids[i].den - centroids[i].num[1])
                        * (e[1] * centroids[i].den - centroids[i].num[1])
                    + (e[2] * centroids[i].den - centroids[i].num[2])
                        * (e[2] * centroids[i].den - centroids[i].num[2])]
        less == [i \in 1..Len(centroids) |-> [j \in 1..Len(centroids) |->
                    dist[i] * centroids[j].den * centroids[j].den
                        < dist[j] * centroids[i].den * centroids[i].den]]
    IN CHOOSE i \in 1..Len(centroids) :
           \A j \in 1..Len(centroids) : IF j < i THEN less[i][j] ELSE ~less[j][i]

\* _kmeans, one pass of the loop: stop when the labels did not change, else
\* move every centroid that has members to their mean
RECURSIVE KmeansIterate(_, _, _, _, _)
RECURSIVE KmeansMoved(_, _, _, _)
KmeansIterate(vectors, centroids, labels, new_labels, n_iter) ==
    IF new_labels = labels THEN labels
    ELSE IF n_iter = 1 THEN new_labels
    ELSE KmeansMoved(vectors,
            << >> \o [idx \in 1..Len(centroids) |->
                IF \E i \in 1..Len(vectors) : new_labels[i] = idx
                THEN MeanOf(vectors, {i \in 1..Len(vectors) : new_labels[i] = idx})
                ELSE centroids[idx]],
            new_labels, n_iter - 1)

\* _kmeans, the head of the loop: every row is labelled with its nearest centroid
KmeansMoved(vectors, centroids, labels, n_iter) ==
    KmeansIterate(vectors, centroids, labels,
                  << >> \o [i \in 1..Len(vectors) |-> Argmin(vectors[i], centroids)], n_iter)

\* _kmeans; picked are the k distinct row indices rng.choice draws for the
\* initial centroids; the labels are 1..k for the code's 0..k-1
kmeans(vectors, k, picked) ==
    IF Len(vectors) <= k THEN << >> \o [i \in 1..Len(vectors) |-> i]
    ELSE KmeansMoved(vectors, << >> \o [j \in 1..k |-> AsCentroid(vectors[picked[j]])],
                     << >> \o [i \in 1..Len(vectors) |-> 1], KmeansIterations)

\* a variant that truncates the root instead of rounding it
ClusterCountTruncated(n) ==
    Max(MinClusters, Min(MaxClusters,
        CHOOSE r \in 0..n : 6 * r * r <= n /\ n < 6 * (r + 1) * (r + 1)))

\* round(math.sqrt(n / 6)) clamped: r is the rounded root when
\* (r - 1/2)^2 < n/6 < (r + 1/2)^2 (no n/6 is the square of a half-integer)
ClusterCount(n) ==
    Max(MinClusters, Min(MaxClusters,
        CHOOSE r \in 0..n : /\ (r = 0 \/ 3 * (2 * r - 1) * (2 * r - 1) < 2 * n)
                            /\ 2 * n < 3 * (2 * r + 1) * (2 * r + 1)))

\* the member ideas of a level-1 topic, in row order
MembersOf(I, parent) == Ascending({i \in DOMAIN I : I[i].topic_id = parent})

\* np.array([i.embedding for i in ideas])
MemberVectors(I, members) == << >> \o [j \in 1..Len(members) |-> I[members[j]].embedding]

\* a variant that also skips a topic of exactly recluster_min_points members
NeedsReclusterAboveFloor(I, parent, members) ==
    /\ Len(members) > recluster_min_points
    /\ ~(assignment_entropy(<< >> \o [j \in 1..Len(members) |-> I[members[j]].subtopic_id])
            < recluster_entropy_threshold * 10000)

\* run_periodic_recluster: the two tests that let a level-1 topic through
NeedsRecluster(I, parent, members) ==
    /\ ~(Len(members) < recluster_min_points)
    /\ ~(assignment_entropy(<< >> \o [j \in 1..Len(members) |-> I[members[j]].subtopic_id])
            < recluster_entropy_threshold * 10000)

\* run_periodic_recluster, "for idx in range(k)": the new level-2 child idx
NewChild(T, parent, idx, vectors, labels) ==
    [NewTopic(2, T[parent].name \o <<" ","/"," ","c","l","u","s","t","e","r"," ">>
                    \o <<(<<"1","2","3","4","5","6","7","8">>)[idx]>>,
              vectors[1], parent)
        EXCEPT !.centroid = IF \E i \in 1..Len(vectors) : labels[i] = idx
                            THEN MeanOf(vectors, {i \in 1..Len(vectors) : labels[i] = idx})
                            ELSE AsCentroid(vectors[1]),
               !.n_points = Cardinality({i \in 1..Len(vectors) : labels[i] = idx})]

\* a reassignment that points subtopic_id at the level-1 topic
ReassignedToLevel1(D, idea, child) ==
    [D EXCEPT !.ideas[idea].subtopic_id = D.ideas[idea].topic_id,
              !.ideas[idea].cluster_id = UuidStr(child),
              !.topics[child] = update_topic_centroid(@, D.ideas[idea].embedding)]

\* a reassignment that moves topic_id along with subtopic_id
ReassignedWithTopic(D, idea, child) ==
    [D EXCEPT !.ideas[idea].subtopic_id = child,
              !.ideas[idea].topic_id = child,
              !.ideas[idea].cluster_id = UuidStr(child),
              !.topics[child] = update_topic_centroid(@, D.ideas[idea].embedding)]

\* run_periodic_recluster, the body of "for row_idx, idea in enumerate(ideas)";
\* _normalize_stance_label leaves a stored label as it is
Reassigned(D, idea, child) ==
    [D EXCEPT !.ideas[idea].subtopic_id = child,
              !.ideas[idea].cluster_id = UuidStr(child),
              !.topics[child] =
                  IF D.ideas[idea].stance_label \in {"pro", "con"}
                  THEN update_stance_centroid(
                           update_topic_centroid(@, D.ideas[idea].embedding),
                           D.ideas[idea].embedding, D.ideas[idea].stance_label)
                  ELSE update_topic_centroid(@, D.ideas[idea].embedding)]

\* the first `upto` members reassigned, from member j on
RECURSIVE ReassignMembers(_, _, _, _, _, _)
ReassignMembers(D, members, labels, newTopic, j, upto) ==
    IF j > upto \/ members[j] \notin DOMAIN D.ideas THEN D
    ELSE ReassignMembers(Reassigned(D, members[j], newTopic + labels[j] - 1),
                         members, labels, newTopic, j + 1, upto)

\* a variant that empties every topic below the parent, the level-3 ones too
RepartitionParentEmptyBelow(D, parent, members, vectors, labels, k, newTopic, upto) ==
    ReassignMembers(
        [D EXCEPT !.topics =
            [t \in newTopic..(newTopic + k - 1) |->
                    NewChild(D.topics, parent, t - newTopic + 1, vectors, labels)]
            @@ [t \in DOMAIN D.topics |->
                    IF D.topics[t].level >= 2
                    THEN [D.topics[t] EXCEPT !.n_points = 0] ELSE D.topics[t]]],
        members, labels, newTopic, 1, upto)

\* run_periodic_recluster, one level-1 topic past the two tests: the old
\* level-2 children are emptied, k children created with the uuids from
\* newTopic on, and the first `upto` members reassigned
RepartitionParent(D, parent, members, vectors, labels, k, newTopic, upto) ==
    ReassignMembers(
        [D EXCEPT !.topics =
            [t \in newTopic..(newTopic + k - 1) |->
                    NewChild(D.topics, parent, t - newTopic + 1, vectors, labels)]
            @@ [t \in DOMAIN D.topics |->
                    IF D.topics[t].level = 2 /\ D.topics[t].parent = parent
                    THEN [D.topics[t] EXCEPT !.n_points = 0] ELSE D.topics[t]]],
        members, labels, newTopic, 1, upto)

\* the exception-free run
NoFailure == [parent |-> 0, after |-> 0]

\* run_periodic_recluster, one pass of "for parent in parents".  acc is the
\* session: its view of the database, the next uuid, the count refreshed and
\* whether an exception ended the run.  picked[n] are the rows rng.choice
\* draws among n members; fail_at names the parent and the number of members
\* reassigned when an exception is raised
ReclusterParent(acc, parent, members, vectors, picked, fail_at) ==
    IF acc.failed \/ ~NeedsRecluster(acc.db.ideas, parent, members) THEN acc
    ELSE [db |-> RepartitionParent(acc.db, parent, members, vectors,
                    kmeans(vectors, ClusterCount(Len(members)), picked[Len(members)]),
                    ClusterCount(Len(members)), acc.next,
                    IF fail_at.parent = parent THEN Min(fail_at.after, Len(members))
                    ELSE Len(members)),
          next |-> acc.next + ClusterCount(Len(members)),
          refreshed |-> IF fail_at.parent = parent THEN acc.refreshed
                        ELSE acc.refreshed + 1,
          failed |-> fail_at.parent = parent]

RECURSIVE ReclusterParents(_, _, _, _)
ReclusterParents(acc, parents, picked, fail_at) ==
    IF parents = << >> THEN acc
    ELSE ReclusterParents(
            ReclusterParent(acc, parents[1], MembersOf(acc.db.ideas, parents[1]),
                MemberVectors(acc.db.ideas, MembersOf(acc.db.ideas, parents[1])),
                picked, fail_at),
            Tail(parents), picked, fail_at)

\* run_periodic_recluster
run_periodic_recluster(D, newTopic, picked, fail_at) ==
    ReclusterParents([db |-> D, next |-> newTopic, refreshed |-> 0, failed |-> FALSE],
                     Ascending({t \in DOMAIN D.topics : D.topics[t].level = 1}),
                     picked, fail_at)

\* a variant that commits what the session had flushed when the run failed
ReclusterTopicsCommitFlushed(D, r) ==
    IF r.failed THEN [status |-> 500, db |-> r.db, topics_refreshed |-> 0]
    ELSE [status |-> 200, db |-> r.db, topics_refreshed |-> r.refreshed]

\* recluster_topics: the commit follows the return of the run; an exception
\* leaves the handler before it, and get_db closes the session, which rolls
\* back whatever the run had flushed
recluster_topics(D, r) ==
    IF r.failed THEN [status |-> 500, db |-> D, topics_refreshed |-> 0]
    ELSE [status |-> 200, db |-> r.db, topics_refreshed |-> r.refreshed]

(***************************************************************************)
(* POST /ideas                                                             *)
(***************************************************************************)
\* InsightCreate: pydantic checks the length of the raw text before the handler
\* runs; FastAPI answers a request that fails it with 422
schema_accepts(text) == Len(text) >= SchemaMinLen /\ Len(text) <= SchemaMaxLen

\* create_idea, the except clause and the commit: every exception of
\* ingest_idea becomes HTTPException(500); get_db closes the session, which
\* rolls back whatever was not committed
CreateIdeaResponse(D, r) ==
    IF r.outcome \in {"ValueError", "OracleError", "IntegrityError"}
    THEN [r EXCEPT !.db = D] @@ [status |-> 500]
    ELSE r @@ [status |-> 200]

\* create_idea: the result is the status, the committed database and the
\* response body
create_idea(D, newIdea, newTopic, now, text, metadata_json, embedding, result) ==
    IF ~schema_accepts(text)
    THEN [status |-> 422, db |-> D, outcome |-> "RequestValidationError", idea |-> 0,
          topic |-> 0, subtopic |-> 0, dup_lookups |-> 0, oracle_calls |-> << >>,
          embed_calls |-> 0, classify_calls |-> 0]
    ELSE CreateIdeaResponse(D,
            ingest_idea(D, newIdea, newTopic, now, text, metadata_json, embedding, result))

(***************************************************************************)
(* State                                                                   *)
(***************************************************************************)
VARIABLES
    ideas,      \* committed insights table: idea id -> row
    topics,     \* committed topics table: topic id -> row
    edges,      \* committed edges table: <<src, dst>> -> row
    nextIdea,   \* the next uuid4() of an idea
    nextTopic,  \* the next uuid4() of a topic
    clock,      \* requests served so far; datetime.utcnow() of the current one
    resp,       \* the last request of the sequential specification and its response
    sess,       \* concurrent specification: worker -> its request and database session
    relations   \* committed idea_relations table: <<src_id, dst_id>> -> row

vars == <<ideas, topics, edges, nextIdea, nextTopic, clock, resp, sess, relations>>

store == <<ideas, topics, edges>>

DB == [ideas |-> ideas, topics |-> topics, edges |-> edges]

Workers == {"w1", "w2"}

IdleSession == [pc |-> "idle"]

Init ==
    /\ ideas = EmptyMap
    /\ topics = EmptyMap
    /\ edges = EmptyMap
    /\ nextIdea = 1
    /\ nextTopic = 1
    /\ clock = 0
    /\ resp = [endpoint |-> "none"]
    /\ sess = [w \in Workers |-> IdleSession]
    /\ relations = EmptyMap

(***************************************************************************)
(* Inputs                                                                  *)
(***************************************************************************)
Rep(c, n) == [i \in 1..n |-> c]

TextA == <<"a","b","c","d","e">>
TextADup == <<"A","b","c","d","e","!">>
TextB == <<"a","b"," "," ","c","d">>
TextC == <<"c","a","b"," ","e","?">>
TextShort == <<"h","i">>
TextPadded == <<"h","i"," "," "," ">>
TextLong == Rep("a", MaxTextLen)
TextTooLong == Rep("a", MaxTextLen + 1)

InvalidTexts == {TextShort, TextPadded, TextLong, TextTooLong}

HintPro == [stance_hint |-> <<"p","r","o">>]
HintCon == [stance_hint |-> <<" ","C","o","n">>]
HintOdd == [stance_hint |-> <<"o","d","d">>]
\* client metadata with the keys ingestion computes
MetaAnchors ==
    [mid_topic_id |-> <<"uuid", 99>>, stance_score |-> 7,
     topic_path |-> <<<<"x">>, <<"x">>, <<"x">>>>]

East == <<1, 0>>
North == <<0, 1>>
NorthEast == <<4, 3>>
NorthNorthEast == <<3, 4>>
Diagonal == <<1, 1>>
NorthByEast == <<5, 6>>
West == <<-1, 0>>
South == <<0, -1>>

HierA == [level1 |-> <<"A">>, level2 |-> <<"p">>, level3 |-> <<"c">>]
HierALower == [level1 |-> <<"a">>, level2 |-> <<"P">>, level3 |-> <<"c"," ">>]
HierB == [level1 |-> <<"A">>, level2 |-> <<"p">>, level3 |-> <<"d">>]
HierC == [level1 |-> <<"C">>, level2 |-> << >>, level3 |-> << >>]

\* a POST /ideas request together with what the two oracles answer for it
Request(text, metadata_json, embedding, result) ==
    [text |-> text, metadata_json |-> metadata_json, embedding |-> embedding,
     result |-> result]

ValidRequests ==
    {Request(TextA, HintPro, East, HierA),
     Request(TextADup, HintCon, East, HierALower),
     Request(TextB, HintCon, North, HierA),
     Request(TextB, NoValue, NorthEast, HierB),
     Request(TextC, NoValue, NorthEast, HierALower),
     Request(TextC, HintPro, NorthNorthEast, HierA),
     Request(TextC, HintOdd, Diagonal, HierA),
     Request(TextC, HintPro, East, HierC)}

\* requests during which the embedding oracle or the hierarchy oracle raises
FailedRequests ==
    {Request(TextADup, NoValue, Fail, HierA),
     Request(TextB, HintPro, Fail, HierA),
     Request(TextC, HintCon, East, Fail)}

\* the requests that populate the store before retrieval
SeedRequests ==
    {Request(TextA, HintPro, East, HierA),
     Request(TextB, HintCon, North, HierA),
     Request(TextC, HintCon, NorthEast, HierB),
     Request(TextC, NoValue, NorthEast, HierALower),
     Request(TextC, HintPro, East, HierC),
     Request(TextB, HintPro, NorthByEast, HierA),
     Request(TextC, HintPro, East, HierB)}

TopKs == {1, 2}

(***************************************************************************)
(* Sequential specification: one request at a time                         *)
(***************************************************************************)
\* the store and the response after a POST /ideas that create_idea answered with r
Served(text, metadata_json, embedding, result, r) ==
    /\ ideas' = r.db.ideas
    /\ topics' = r.db.topics
    /\ edges' = r.db.edges
    /\ nextIdea' = IF r.outcome = "created" /\ r.status = 200
                   THEN nextIdea + 1 ELSE nextIdea
    /\ nextTopic' = nextTopic + Cardinality(DOMAIN r.db.topics \ DOMAIN topics)
    /\ resp' = [endpoint |-> "/ideas", text |-> text, metadata_json |-> metadata_json,
                embedding |-> embedding, result |-> result,
                status |-> r.status, outcome |-> r.outcome, idea |-> r.idea,
                topic |-> r.topic, subtopic |-> r.subtopic,
                created_at |-> IF r.idea # 0 THEN r.db.ideas[r.idea].created_at ELSE 0,
                dup_lookups |-> r.dup_lookups, oracle_calls |-> r.oracle_calls,
                embed_calls |-> r.embed_calls, classify_calls |-> r.classify_calls]

\* POST /ideas, the whole request
CreateIdea(text, metadata_json, embedding, result) ==
    /\ clock < MaxRequests
    /\ Served(text, metadata_json, embedding, result,
              create_idea(DB, nextIdea, nextTopic, clock + 1, text, metadata_json,
                          embedding, result))
    /\ clock' = clock + 1
    /\ UNCHANGED <<sess, relations>>

\* the response of a retrieval endpoint
Retrieved(endpoint, id, top_k, r) ==
    resp' = [endpoint |-> endpoint, id |-> id, top_k |-> top_k, status |-> 200,
             neighbors |-> r.rows, l3_query |-> r.l3_query]

\* GET /supportive
Supportive(id, top_k) ==
    /\ clock < MaxRequests
    /\ Retrieved("/supportive", id, top_k, retrieve_supportive(ideas, topics, id, top_k))
    /\ clock' = clock + 1
    /\ UNCHANGED <<store, nextIdea, nextTopic, sess, relations>>

\* GET /opposing
Opposing(id, top_k) ==
    /\ clock < MaxRequests
    /\ Retrieved("/opposing", id, top_k,
                 retrieve_opposing(ideas, topics, id, top_k, opposing_alpha))
    /\ clock' = clock + 1
    /\ UNCHANGED <<store, nextIdea, nextTopic, sess, relations>>

Next ==
    \/ \E q \in ValidRequests : CreateIdea(q.text, q.metadata_json, q.embedding, q.result)
    \/ \E q \in FailedRequests : CreateIdea(q.text, q.metadata_json, q.embedding, q.result)
    \/ \E text \in InvalidTexts : CreateIdea(text, HintPro, East, HierA)

Spec == Init /\ [][Next]_vars

(***************************************************************************)
(* Retrieval specification: ideas are ingested, then read back             *)
(***************************************************************************)
NextRetrieve ==
    \/ \E q \in SeedRequests : CreateIdea(q.text, q.metadata_json, q.embedding, q.result)
    \/ \E id \in DOMAIN ideas, top_k \in TopKs : Supportive(id, top_k)
    \/ \E id \in DOMAIN ideas, top_k \in TopKs : Opposing(id, top_k)

SpecRetrieve == Init /\ [][NextRetrieve]_vars

(***************************************************************************)
(* Relation specification: ideas are ingested, then GET /relations asks    *)
(* the pair oracle about a seed and its neighbours                         *)
(***************************************************************************)
\* what chat_json may return for a pair; Fail when the request raises
RelationAnswers ==
    <<[relation_label |-> <<"s","u","p","p","o","r","t">>, confidence |-> 90],
      [relation_label |-> <<" ","o","P","P","o","s","e">>, confidence |-> 150],
      [relation_label |-> <<"o","d","d">>],
      Fail>>

\* relations: db.commit() comes after retrieve_relation_buckets returned; an
\* exception leaves the handler before it, get_db closes the session and the
\* rows flushed so far are rolled back; the client gets 500
RelationsServed(id, top_k, r) ==
    /\ relations' = IF r.failed THEN relations ELSE r.relations
    /\ edges' = IF r.failed THEN edges ELSE r.edges
    /\ resp' = [endpoint |-> "/relations", id |-> id, top_k |-> top_k,
                status |-> IF r.failed THEN 500 ELSE 200, calls |-> r.calls,
                supportive |-> IF r.failed THEN << >> ELSE r.supportive,
                opposing |-> IF r.failed THEN << >> ELSE r.opposing,
                neutral |-> IF r.failed THEN << >> ELSE r.neutral]

\* GET /relations, the whole request; pick chooses the oracle's answer for
\* each idea that can be a candidate
Relations(id, top_k, pick) ==
    /\ clock < MaxRequests
    /\ RelationsServed(id, top_k,
            retrieve_relation_buckets(ideas, relations, edges, id, top_k,
                DefaultCandidatePool, [c \in DOMAIN pick |-> RelationAnswers[pick[c]]]))
    /\ clock' = clock + 1
    /\ UNCHANGED <<ideas, topics, nextIdea, nextTopic, sess>>

NextRelations ==
    \/ \E q \in {s \in SeedRequests : s.metadata_json = HintPro} :
            CreateIdea(q.text, q.metadata_json, q.embedding, q.result)
    \/ \E id \in DOMAIN ideas \cup {nextIdea}, top_k \in TopKs :
            \E pick \in [DOMAIN ideas \ {id} -> DOMAIN RelationAnswers] :
                Relations(id, top_k, pick)

SpecRelations == Init /\ [][NextRelations]_vars

(***************************************************************************)
(* Rebalance specification: a store filled by POST /ideas serves           *)
(* POST /jobs/recluster and further POST /ideas                            *)
(***************************************************************************)
\* a seeding script is a list of groups <<count, level1, level3, embedding,
\* metadata>>: count POST /ideas requests with distinct texts, answered alike
\* by the oracles.  The first embedding of each level-3 name is far from the
\* centroids of its siblings, so every name gets a topic of its own
SeedScripts ==
    <<<< <<8, "A", "c", East, HintPro>>, <<8, "A", "d", North, HintCon>>,
         <<8, "A", "e", West, NoValue>> >>,
      << <<8, "A", "c", East, HintPro>>, <<8, "A", "d", North, HintCon>>,
         <<7, "A", "e", West, NoValue>> >>,
      << <<12, "A", "c", East, HintPro>>, <<12, "A", "d", North, HintCon>> >>,
      << <<12, "A", "c", East, HintPro>>, <<6, "A", "d", North, HintCon>>,
         <<6, "A", "e", West, NoValue>> >>,
      << <<10, "A", "c", East, HintPro>>, <<7, "A", "d", North, HintCon>>,
         <<7, "A", "e", West, NoValue>> >>,
      << <<1, "C", "c", South, HintPro>>, <<1, "C", "d", West, HintCon>>,
         <<1, "C", "e", East, NoValue>>,
         <<8, "A", "c", East, HintPro>>, <<8, "A", "d", North, HintCon>>,
         <<8, "A", "e", West, NoValue>> >>,
      << <<8, "C", "c", South, HintPro>>, <<8, "C", "d", West, HintCon>>,
         <<8, "C", "e", East, NoValue>>,
         <<8, "A", "c", East, HintPro>>, <<8, "A", "d", North, HintCon>>,
         <<8, "A", "e", West, NoValue>> >> >>

\* the store after one seeding request that create_idea answered with r
SeedServed(acc, r) ==
    [db |-> r.db, nextIdea |-> acc.nextIdea + 1,
     nextTopic |-> acc.nextTopic + Cardinality(DOMAIN r.db.topics \ DOMAIN acc.db.topics)]

\* the store after the requests of a seeding script, all served before the
\* clock of the specification starts
RECURSIVE Seeded(_, _)
Seeded(acc, groups) ==
    IF groups = << >> \/ acc.nextIdea > MaxSeedIdeas THEN acc
    ELSE IF groups[1][1] = 0 THEN Seeded(acc, Tail(groups))
    ELSE Seeded(
            SeedServed(acc,
                create_idea(acc.db, acc.nextIdea, acc.nextTopic, 0,
                            Rep("s", MinTextLen + acc.nextIdea), groups[1][5], groups[1][4],
                            [level1 |-> <<groups[1][2]>>, level2 |-> <<"p">>,
                             level3 |-> <<groups[1][3]>>])),
            <<[groups[1] EXCEPT ![1] = @ - 1]>> \o Tail(groups))

InitSeeded(acc) ==
    /\ ideas = acc.db.ideas
    /\ topics = acc.db.topics
    /\ edges = acc.db.edges
    /\ nextIdea = acc.nextIdea
    /\ nextTopic = acc.nextTopic
    /\ clock = 0
    /\ resp = [endpoint |-> "none"]
    /\ sess = [w \in Workers |-> IdleSession]
    /\ relations = EmptyMap

InitRecluster ==
    \E n \in DOMAIN SeedScripts :
        InitSeeded(Seeded([db |-> [ideas |-> EmptyMap, topics |-> EmptyMap, edges |-> EmptyMap],
                           nextIdea |-> 1, nextTopic |-> 1], SeedScripts[n]))

\* a new text, the text of the first seeded idea with a stance hint and the
\* text of the second one without metadata
ReclusterRequests ==
    {Request(TextA, HintPro, West, [level1 |-> <<"A">>, level2 |-> <<"p">>, level3 |-> <<"e">>]),
     Request(Rep("s", MinTextLen + 1), HintCon, North, HierB),
     Request(Rep("s", MinTextLen + 2), NoValue, North, HierB)}

\* the level-1 topics a run would re-partition
Reclusterable ==
    {t \in DOMAIN topics : topics[t].level = 1
                            /\ NeedsRecluster(ideas, t, MembersOf(ideas, t))}

\* the draws of rng.choice(n, size=k, replace=False): k distinct rows.  Every
\* call seeds its generator alike, so the draw is a function of n, one that
\* only running the library tells; every draw is allowed.  The labels depend
\* on the rows drawn through their embeddings only, so among the rows whose
\* embeddings agree in every topic of n members the earliest stand for the others
RowDraws(n, rows) ==
    {s \in [1..ClusterCount(n) -> 1..n] :
        /\ \A a, b \in DOMAIN s : a # b => s[a] # s[b]
        /\ \A a \in DOMAIN s : \A m \in 1..(s[a] - 1) :
               (\A v \in rows : v[m] = v[s[a]]) => \E b \in 1..(a - 1) : s[b] = m}

\* the embeddings of the members of every topic of n members that a run
\* would re-partition
MemberRows(n) ==
    {MemberVectors(ideas, MembersOf(ideas, t)) :
        t \in {u \in Reclusterable : Len(MembersOf(ideas, u)) = n}}

\* the points at which an exception ends a run: while the members of a
\* level-1 topic are reassigned
FailPoints ==
    {NoFailure} \cup {[parent |-> p, after |-> 3] : p \in Reclusterable}

\* the store and the response after a POST /jobs/recluster whose run ended
\* as r and that recluster_topics answered with out
ReclusterServed(r, out) ==
    /\ ideas' = out.db.ideas
    /\ topics' = out.db.topics
    /\ edges' = out.db.edges
    /\ nextTopic' = nextTopic + Cardinality(DOMAIN out.db.topics \ DOMAIN topics)
    /\ resp' = [endpoint |-> "/jobs/recluster", status |-> out.status,
                topics_refreshed |-> out.topics_refreshed,
                created |-> Cardinality(DOMAIN r.db.topics \ DOMAIN topics),
                reassigned |-> Cardinality({i \in DOMAIN ideas :
                                  r.db.ideas[i].subtopic_id # ideas[i].subtopic_id})]

ReclusterRun(r) == ReclusterServed(r, recluster_topics(DB, r))

\* POST /jobs/recluster, the whole request
Recluster(picked, fail_at) ==
    /\ clock < MaxReclusterRequests
    /\ ReclusterRun(run_periodic_recluster(DB, nextTopic, picked, fail_at))
    /\ clock' = clock + 1
    /\ UNCHANGED <<nextIdea, sess, relations>>

NextRecluster ==
    \/ \E q \in ReclusterRequests :
           /\ clock < MaxReclusterRequests
           /\ CreateIdea(q.text, q.metadata_json, q.embedding, q.result)
    \/ /\ clock < MaxReclusterRequests
       /\ \E fail_at \in FailPoints :
           \E picked \in [{Len(MembersOf(ideas, t)) : t \in Reclusterable} ->
                            UNION {RowDraws(Len(MembersOf(ideas, t)),
                                            MemberRows(Len(MembersOf(ideas, t)))) :
                                      t \in Reclusterable}] :
               /\ \A n \in DOMAIN picked : picked[n] \in RowDraws(n, MemberRows(n))
               /\ Recluster(picked, fail_at)

SpecRecluster == InitRecluster /\ [][NextRecluster]_vars

(***************************************************************************)
(* Repartition specification: the rebalance requests on stores whose       *)
(* level-1 topic has 24 and 38 members, so that k is 2 and 3               *)
(***************************************************************************)
RepartitionScripts ==
    << << <<8, "A", "c", East, HintPro>>, <<8, "A", "d", North, HintCon>>,
          <<8, "A", "e", West, NoValue>> >>,
       << <<13, "A", "c", East, HintPro>>, <<13, "A", "d", North, HintCon>>,
          <<12, "A", "e", West, NoValue>> >> >>

InitRepartition ==
    \E n \in DOMAIN RepartitionScripts :
        InitSeeded(Seeded([db |-> [ideas |-> EmptyMap, topics |-> EmptyMap, edges |-> EmptyMap],
                           nextIdea |-> 1, nextTopic |-> 1], RepartitionScripts[n]))

NextRepartition ==
    /\ clock < MaxRepartitionRequests
    /\ NextRecluster

SpecRepartition == InitRepartition /\ [][NextRepartition]_vars

(***************************************************************************)
(* Neighbour specification: POST /ideas on stores whose level-3 topics     *)
(* have more and fewer ideas than the neighbour search asks for            *)
(***************************************************************************)
NeighborScripts ==
    << << <<8, "A", "e", West, NoValue>>, <<3, "A", "c", East, HintPro>> >>,
       << <<5, "A", "e", West, NoValue>>, <<6, "A", "c", East, HintPro>> >> >>

InitNeighbors ==
    \E n \in DOMAIN NeighborScripts :
        InitSeeded(Seeded([db |-> [ideas |-> EmptyMap, topics |-> EmptyMap, edges |-> EmptyMap],
                           nextIdea |-> 1, nextTopic |-> 1], NeighborScripts[n]))

\* new texts: one named into the leaf "e" whose embedding is that of the
\* ideas of "c", one under a new level-2 topic, one into "c", one under a
\* new level-1 topic, one whose metadata has the keys ingestion computes
NeighborRequests ==
    {Request(TextA, NoValue, East, [level1 |-> <<"A">>, level2 |-> <<"p">>, level3 |-> <<"e">>]),
     Request(TextB, NoValue, NorthEast, [level1 |-> <<"A">>, level2 |-> <<"q">>, level3 |-> <<"e">>]),
     Request(TextC, HintPro, West, [level1 |-> <<"A">>, level2 |-> <<"p">>, level3 |-> <<"c">>]),
     Request(Rep("n", MinTextLen + 1), NoValue, North, HierC),
     Request(Rep("m", MinTextLen + 1), MetaAnchors, East,
             [level1 |-> <<"A">>, level2 |-> <<"p">>, level3 |-> <<"c">>])}

NextNeighbors ==
    \E q \in NeighborRequests :
        /\ clock < MaxNeighborRequests
        /\ CreateIdea(q.text, q.metadata_json, q.embedding, q.result)

SpecNeighbors == InitNeighbors /\ [][NextNeighbors]_vars

(***************************************************************************)
(* Edge specification: POST /ideas and GET /relations on a store whose     *)
(* level-1 topic holds ideas of opposite embeddings, with a pair oracle    *)
(* that also answers with a low confidence                                 *)
(***************************************************************************)
EdgeScript ==
    << <<2, "A", "e", West, HintCon>>, <<1, "A", "c", East, HintPro>>,
       <<1, "C", "c", South, HintPro>> >>

InitEdges ==
    InitSeeded(Seeded([db |-> [ideas |-> EmptyMap, topics |-> EmptyMap, edges |-> EmptyMap],
                       nextIdea |-> 1, nextTopic |-> 1], EdgeScript))

\* what chat_json returns for a pair
EdgeAnswers ==
    <<[relation_label |-> <<"s","u","p","p","o","r","t">>, confidence |-> 90],
      [relation_label |-> <<"o","p","p","o","s","e">>, confidence |-> 30],
      [relation_label |-> <<"n","e","u","t","r","a","l">>, confidence |-> 80]>>

EdgeRequests ==
    {Request(TextA, HintPro, West, [level1 |-> <<"A">>, level2 |-> <<"p">>, level3 |-> <<"c">>]),
     Request(TextB, NoValue, North, [level1 |-> <<"C">>, level2 |-> <<"p">>, level3 |-> <<"c">>])}

\* GET /relations, the whole request, the pair oracle answering from EdgeAnswers
EdgeRelations(id, top_k, pick) ==
    /\ clock < MaxEdgeRequests
    /\ RelationsServed(id, top_k,
            retrieve_relation_buckets(ideas, relations, edges, id, top_k,
                DefaultCandidatePool, [c \in DOMAIN pick |-> EdgeAnswers[pick[c]]]))
    /\ clock' = clock + 1
    /\ UNCHANGED <<ideas, topics, nextIdea, nextTopic, sess>>

NextEdges ==
    \/ \E q \in EdgeRequests :
           /\ clock < MaxEdgeRequests
           /\ CreateIdea(q.text, q.metadata_json, q.embedding, q.result)
    \/ \E id \in DOMAIN ideas, top_k \in TopKs :
           \E pick \in [{c \in DOMAIN ideas \ {id} : ideas[c].topic_id = ideas[id].topic_id}
                           -> DOMAIN EdgeAnswers] :
               EdgeRelations(id, top_k, pick)

SpecEdges == InitEdges /\ [][NextEdges]_vars

(***************************************************************************)
(* Legacy specification: POST /ideas on a store that holds rows written    *)
(* before the columns topic_id and subtopic_id were added at startup       *)
(***************************************************************************)
\* a row of the insights table from before the topic layer: topic is its
\* topic_id, 0 for NULL; its subtopic_id is NULL
LegacyRow(text, topic) ==
    [text |-> text, embedding |-> East, cluster_id |-> UuidStr(0),
     topic_id |-> topic, subtopic_id |-> 0, stance_label |-> "neutral",
     stance_confidence |-> 0, created_at |-> 0, metadata |-> [source |-> <<"v","1">>]]

LegacyScript == << <<1, "A", "c", East, HintPro>>, <<1, "A", "d", North, HintCon>> >>

\* the seeded store with a legacy row without topics and one whose topic_id
\* names the level-1 topic
WithLegacyRows(acc) ==
    [acc EXCEPT !.db.ideas = (acc.nextIdea :> LegacyRow(TextA, 0))
                                @@ ((acc.nextIdea + 1) :> LegacyRow(<<"a","b"," ","c","d">>, 1))
                                @@ @,
                !.nextIdea = @ + 2]

InitLegacy ==
    InitSeeded(WithLegacyRows(
        Seeded([db |-> [ideas |-> EmptyMap, topics |-> EmptyMap, edges |-> EmptyMap],
                nextIdea |-> 1, nextTopic |-> 1], LegacyScript)))

\* the texts of the two legacy rows, of a seeded idea and new texts
LegacyRequests ==
    {Request(TextA, HintPro, East, HierA),
     Request(<<"A","b","C","d","e","!">>, NoValue, North, HierB),
     Request(TextB, HintCon, North, HierA),
     Request(Rep("s", MinTextLen + 1), HintCon, North, HierB),
     Request(TextC, NoValue, NorthEast, HierB),
     Request(TextC, HintPro, East, HierC),
     Request(<<"c","a","b","s","!">>, HintCon, West, HierA),
     Request(TextA, HintPro, Fail, HierA)}

NextLegacy ==
    \E q \in LegacyRequests :
        /\ clock < MaxLegacyRequests
        /\ CreateIdea(q.text, q.metadata_json, q.embedding, q.result)

SpecLegacy == InitLegacy /\ [][NextLegacy]_vars

(***************************************************************************)
(* Nearby specification: the retrieval endpoints on a store of ten level-1 *)
(* topics.  Each topic is created by an idea of embedding West and then    *)
(* joined, by its name, by an idea that turns its centroid; the cosines of *)
(* the ten centroids with East are 1.00, 0.98, 0.94, 0.89, 0.83, 0.80,     *)
(* 0.70, 0.60, 0.44 and 0.37                                               *)
(***************************************************************************)
NearbyScript ==
    << <<1, "A", "c", West, HintCon>>, <<1, "A", "c", <<2, 0>>, HintPro>>,
       <<1, "B", "c", West, HintCon>>, <<1, "B", "c", <<6, 1>>, HintPro>>,
       <<1, "C", "c", West, HintCon>>, <<1, "C", "c", <<4, 1>>, HintPro>>,
       <<1, "D", "c", West, HintCon>>, <<1, "D", "c", <<3, 1>>, HintPro>>,
       <<1, "E", "c", West, HintCon>>, <<1, "E", "c", <<4, 2>>, HintPro>>,
       <<1, "F", "c", West, HintCon>>, <<1, "F", "c", <<5, 3>>, HintPro>>,
       <<1, "G", "c", West, HintCon>>, <<1, "G", "c", <<2, 1>>, HintPro>>,
       <<1, "H", "c", West, HintCon>>, <<1, "H", "c", <<4, 4>>, HintPro>>,
       <<1, "I", "c", West, HintCon>>, <<1, "I", "c", <<2, 2>>, HintPro>>,
       <<1, "J", "c", West, HintCon>>, <<1, "J", "c", <<3, 5>>, HintPro>> >>

InitNearby ==
    InitSeeded(Seeded([db |-> [ideas |-> EmptyMap, topics |-> EmptyMap, edges |-> EmptyMap],
                       nextIdea |-> 1, nextTopic |-> 1], NearbyScript))

NearbyRequests ==
    {Request(TextA, HintPro, East, [level1 |-> <<"J">>, level2 |-> <<"p">>, level3 |-> <<"c">>]),
     Request(TextB, HintCon, <<1, 3>>, [level1 |-> <<"A">>, level2 |-> <<"p">>, level3 |-> <<"d">>])}

NearbyTopKs == {1, 3, 10}

\* GET /nearby, the whole request
Nearby(id, top_k) ==
    /\ clock < MaxNearbyRequests
    /\ resp' = [endpoint |-> "/nearby", id |-> id, top_k |-> top_k, status |-> 200,
                neighbors |-> retrieve_nearby(ideas, topics, id, top_k).rows,
                topic_ids |-> retrieve_nearby(ideas, topics, id, top_k).topic_ids]
    /\ clock' = clock + 1
    /\ UNCHANGED <<store, nextIdea, nextTopic, sess, relations>>

NextNearby ==
    \/ \E q \in NearbyRequests :
           /\ clock < MaxNearbyRequests
           /\ CreateIdea(q.text, q.metadata_json, q.embedding, q.result)
    \/ \E id \in DOMAIN ideas \cup {nextIdea}, top_k \in NearbyTopKs : Nearby(id, top_k)
    \/ \E id \in DOMAIN ideas, top_k \in NearbyTopKs :
           /\ clock < MaxNearbyRequests
           /\ Supportive(id, top_k)
    \/ \E id \in DOMAIN ideas, top_k \in NearbyTopKs :
           /\ clock < MaxNearbyRequests
           /\ Opposing(id, top_k)

SpecNearby == InitNearby /\ [][NextNearby]_vars

(***************************************************************************)
(* Text specification: normalize_insight_text and insight_text_key applied *)
(* to every text of at most MaxTextChars characters, and to their results  *)
(***************************************************************************)
TextChars == {"a", "A", " ", "\t", ".", "?"}

InitText ==
    /\ ideas = EmptyMap
    /\ topics = EmptyMap
    /\ edges = EmptyMap
    /\ nextIdea = 1
    /\ nextTopic = 1
    /\ clock = 0
    /\ sess = [w \in Workers |-> IdleSession]
    /\ relations = EmptyMap
    /\ \E n \in 0..MaxTextChars : \E x \in [1..n -> TextChars] :
           resp = [endpoint |-> "text", text |-> << >> \o x]

\* normalize_insight_text applied to the text at hand
NormalizeText ==
    /\ resp.endpoint \in {"text", "normalize_insight_text"}
    /\ resp' = [endpoint |-> "normalize_insight_text", input |-> resp.text,
                text |-> normalize_insight_text(resp.text)]
    /\ UNCHANGED <<store, nextIdea, nextTopic, clock, sess, relations>>

\* insight_text_key applied to the text at hand
TextKey ==
    /\ resp.endpoint \in {"text", "normalize_insight_text"}
    /\ resp' = [endpoint |-> "insight_text_key", input |-> resp.text,
                text |-> insight_text_key(resp.text)]
    /\ UNCHANGED <<store, nextIdea, nextTopic, clock, sess, relations>>

NextText == NormalizeText \/ TextKey

SpecText == InitText /\ [][NextText]_vars

(***************************************************************************)
(* Hierarchy specification: _classify_topic_hierarchy applied to the       *)
(* answers of the oracle, for texts of either stance                       *)
(***************************************************************************)
\* what the oracle may put into a field: nothing, blanks, a padded name, and
\* names longer than the limits
HierarchyFields ==
    {<< >>, <<" ">>, <<" ", "A", " ">>,
     Rep("x", TopicNameMaxLen + 1),
     Rep("x", TopicNameMaxLen - 1) \o <<" ", "y">>,
     Rep("y", LeafNameMaxLen + 1)}

InitHierarchy ==
    /\ ideas = EmptyMap
    /\ topics = EmptyMap
    /\ edges = EmptyMap
    /\ nextIdea = 1
    /\ nextTopic = 1
    /\ clock = 0
    /\ sess = [w \in Workers |-> IdleSession]
    /\ relations = EmptyMap
    /\ \E text \in {TextA, TextB}, f1, f2, f3 \in HierarchyFields :
           resp = [endpoint |-> "chat_json", text |-> text,
                   result |-> [level1 |-> f1, level2 |-> f2, level3 |-> f3]]

\* _classify_topic_hierarchy(text_value, "", "") on the answer at hand
ClassifyHierarchy ==
    /\ resp.endpoint = "chat_json"
    /\ resp' = [endpoint |-> "_classify_topic_hierarchy", text |-> resp.text,
                result |-> resp.result,
                hierarchy |-> classify_topic_hierarchy(resp.result)]
    /\ UNCHANGED <<store, nextIdea, nextTopic, clock, sess, relations>>

NextHierarchy == ClassifyHierarchy

SpecHierarchy == InitHierarchy /\ [][NextHierarchy]_vars

(***************************************************************************)
(* Upsert specification: _upsert_topic_level called on a topics table,     *)
(* with the arguments ingest_idea calls it with                            *)
(***************************************************************************)
\* ingest_idea: topic_similarity_threshold for level 1,
\* subtopic_similarity_threshold for levels 2 and 3
LevelThreshold(level) ==
    IF level = 1 THEN topic_similarity_threshold ELSE subtopic_similarity_threshold

\* the parents ingest_idea passes for a level: None, or the topic the
\* upsert of the level above returned
ParentsFor(level) ==
    IF level = 1 THEN {0} ELSE {t \in DOMAIN topics : topics[t].level = level - 1}

UpsertNames == {<<"A">>, <<"a">>, <<"B">>}

UpsertEmbeddings == {East, North, NorthEast}

UpsertServed(embedding, level, name, parent_topic_id, r) ==
    /\ topics' = r.topics
    /\ nextTopic' = r.next
    /\ resp' = [endpoint |-> "_upsert_topic_level", embedding |-> embedding,
                level |-> level, name |-> name, parent_topic_id |-> parent_topic_id,
                id |-> r.id]

\* one call of _upsert_topic_level
UpsertTopic(embedding, level, name, parent_topic_id) ==
    /\ clock < MaxUpsertCalls
    /\ UpsertServed(embedding, level, name, parent_topic_id,
            upsert_topic_level(topics, nextTopic, embedding, level, name,
                               parent_topic_id, LevelThreshold(level)))
    /\ clock' = clock + 1
    /\ UNCHANGED <<ideas, edges, nextIdea, sess, relations>>

NextUpsert ==
    \E embedding \in UpsertEmbeddings, level \in 1..3, name \in UpsertNames :
        \E parent_topic_id \in ParentsFor(level) :
            UpsertTopic(embedding, level, name, parent_topic_id)

SpecUpsert == Init /\ [][NextUpsert]_vars

(***************************************************************************)
(* Concurrent specification: two workers serve POST /ideas at once.  Each  *)
(* worker has its own session; PostgreSQL runs the transactions READ       *)
(* COMMITTED, so a statement reads what is committed when it runs and the  *)
(* worker's own writes.  A request is cut at its database statements: the  *)
(* duplicate lookup, the routing reads, the flush of the new row, the      *)
(* commit.                                                                 *)
(***************************************************************************)
\* the requests of the race; all pass the schema and the length check
RaceRequests ==
    {Request(TextA, HintPro, East, HierA),
     Request(TextADup, HintCon, East, HierALower),
     Request(TextB, HintCon, North, HierA),
     Request(TextC, NoValue, NorthEast, HierA)}

\* the worker's session after the response went out (get_db closed it)
Done(q, status, outcome, idea) ==
    [pc |-> "done", request |-> q, status |-> status, outcome |-> outcome, idea |-> idea]

\* the topic rows a session changed or created, against the committed table
TopicWrites(T, committed) ==
    [t \in {u \in DOMAIN T : u \notin DOMAIN committed \/ T[u] # committed[u]} |-> T[t]]

\* the duplicate lookup found the row existing_id: the duplicate branch runs
\* and create_idea commits
RaceDuplicateServed(w, q, r) ==
    /\ ideas' = r.db.ideas
    /\ topics' = r.db.topics
    /\ edges' = r.db.edges
    /\ sess' = [sess EXCEPT ![w] = Done(q, r.status, r.outcome, r.idea)]

RaceDuplicate(w, q) ==
    /\ clock < MaxRaceRequests
    /\ sess[w].pc \in {"idle", "done"}
    /\ dup_lookup(ideas, insight_text_key(normalize_insight_text(q.text))) # 0
    /\ RaceDuplicateServed(w, q,
            create_idea(DB, nextIdea, nextTopic, clock + 1, q.text, q.metadata_json,
                        q.embedding, q.result))
    /\ clock' = clock + 1
    /\ UNCHANGED <<nextIdea, nextTopic, resp, relations>>

\* the duplicate lookup found no committed row
RaceLookup(w, q) ==
    /\ clock < MaxRaceRequests
    /\ sess[w].pc \in {"idle", "done"}
    /\ dup_lookup(ideas, insight_text_key(normalize_insight_text(q.text))) = 0
    /\ sess' = [sess EXCEPT ![w] =
                    [pc |-> "looked", request |-> q, now |-> clock + 1,
                     text_value |-> normalize_insight_text(q.text)]]
    /\ clock' = clock + 1
    /\ UNCHANGED <<store, nextIdea, nextTopic, resp, relations>>

\* the oracle answers and the three upserts read the committed topics; the
\* session holds the topic rows it changed and the Insight row it built.  A
\* row of the same key committed since the lookup makes the flush fail.
RaceRouted(w, r) ==
    IF r.outcome = "created"
    THEN /\ sess' = [sess EXCEPT ![w] =
                        [pc |-> "routed", request |-> sess[w].request,
                         idea |-> r.idea, topic |-> r.topic, subtopic |-> r.subtopic,
                         row |-> r.db.ideas[r.idea],
                         writes |-> TopicWrites(r.db.topics, topics)]]
         /\ nextIdea' = nextIdea + 1
         /\ nextTopic' = nextTopic + Cardinality(DOMAIN r.db.topics \ DOMAIN topics)
    ELSE /\ sess' = [sess EXCEPT ![w] = Done(sess[w].request, 500, r.outcome, 0)]
         /\ UNCHANGED <<nextIdea, nextTopic>>

RaceRoute(w) ==
    /\ sess[w].pc = "looked"
    /\ RaceRouted(w, ingest_new(DB, nextIdea, nextTopic, sess[w].now, sess[w].text_value,
                                sess[w].request.metadata_json, sess[w].request.embedding,
                                sess[w].request.result))
    /\ UNCHANGED <<store, clock, resp, relations>>

\* db.flush() waits while another session holds an uncommitted row of the
\* same key or an uncommitted update of a topic row this session updates
Blocked(w) ==
    \E u \in Workers \ {w} :
        /\ sess[u].pc = "flushed"
        /\ \/ sql_text_key(sess[u].row.text) = sql_text_key(sess[w].row.text)
           \/ DOMAIN sess[u].writes \cap DOMAIN sess[w].writes \cap DOMAIN topics # {}

\* db.flush() inserts the row; the neighbour queries and the edges follow
RaceFlushed(w, r) ==
    sess' = [sess EXCEPT ![w] = [@ EXCEPT !.pc = "flushed"] @@ [edges |-> r.db.edges]]

RaceFlush(w) ==
    /\ sess[w].pc = "routed"
    /\ ~Blocked(w)
    /\ ~unique_violation(ideas, sess[w].row.text)
    /\ RaceFlushed(w,
            RouteNeighbors(DB, sess[w].idea, sess[w].row.text, sess[w].row.embedding,
                           sess[w].topic, (sess[w].writes @@ topics)[sess[w].subtopic].parent,
                           sess[w].subtopic,
                           sess[w].writes @@ topics,
                           (sess[w].idea :> sess[w].row) @@ ideas))
    /\ UNCHANGED <<store, nextIdea, nextTopic, clock, resp, relations>>

\* db.flush() raises IntegrityError: ingest_idea does not catch it, create_idea
\* answers 500 and the session is rolled back
RaceFlushIntegrityError(w) ==
    /\ sess[w].pc = "routed"
    /\ ~Blocked(w)
    /\ unique_violation(ideas, sess[w].row.text)
    /\ sess' = [sess EXCEPT ![w] = Done(sess[w].request, 500, "IntegrityError", 0)]
    /\ UNCHANGED <<store, nextIdea, nextTopic, clock, resp, relations>>

\* db.commit(): the rows the session wrote replace the committed ones
RaceCommit(w) ==
    /\ sess[w].pc = "flushed"
    /\ ideas' = (sess[w].idea :> sess[w].row) @@ ideas
    /\ topics' = sess[w].writes @@ topics
    /\ edges' = sess[w].edges @@ edges
    /\ sess' = [sess EXCEPT ![w] = Done(sess[w].request, 200, "created", sess[w].idea)]
    /\ UNCHANGED <<nextIdea, nextTopic, clock, resp, relations>>

NextRace ==
    \/ \E w \in Workers, q \in RaceRequests : RaceDuplicate(w, q)
    \/ \E w \in Workers, q \in RaceRequests : RaceLookup(w, q)
    \/ \E w \in Workers : RaceRoute(w)
    \/ \E w \in Workers : RaceFlush(w)
    \/ \E w \in Workers : RaceFlushIntegrityError(w)
    \/ \E w \in Workers : RaceCommit(w)

SpecRace == Init /\ [][NextRace]_vars

(***************************************************************************)
(* Properties                                                              *)
(***************************************************************************)
\* the duplicate key of a request text
RequestKey(text) == insight_text_key(normalize_insight_text(text))

\* the normalized text has between 5 and 320 characters
LengthOk(text) ==
    /\ Len(normalize_insight_text(text)) >= MinTextLen
    /\ Len(normalize_insight_text(text)) <= MaxTextLen

\* the ideas whose duplicate key is that of the text
SameKey(I, text) == {i \in DOMAIN I : insight_text_key(I[i].text) = RequestKey(text)}

C2_RaceLoserRecovers ==
    \A w \in Workers :
        sess[w].pc = "done"
        => /\ sess[w].status = 200
           /\ sess[w].idea \in SameKey(ideas, sess[w].request.text)

\* C3: no two committed ideas have the same duplicate key, whatever the
\* interleaving of the concurrent ingests
C3_OneIdeaPerKey ==
    \A i, j \in DOMAIN ideas :
        i # j => /\ insight_text_key(ideas[i].text) # insight_text_key(ideas[j].text)
                 /\ sql_text_key(ideas[i].text) # sql_text_key(ideas[j].text)

\* two sessions passed the duplicate lookup with the same key; one committed
\* its row and the flush of the other was refused
C3_Witness ==
    \E w \in Workers :
        /\ sess[w].pc = "done"
        /\ sess[w].outcome = "IntegrityError"
        /\ SameKey(ideas, sess[w].request.text) # {}

\* the sum of the embeddings of a set of ideas
RECURSIVE SumEmbeddings(_, _)
SumEmbeddings(I, members) ==
    IF members = {} THEN <<0, 0>>
    ELSE LET i == CHOOSE m \in members : TRUE
             rest == SumEmbeddings(I, members \ {i})
         IN <<I[i].embedding[1] + rest[1], I[i].embedding[2] + rest[2]>>

\* the ideas routed to topic t at its level
RoutedTo(t) ==
    {i \in DOMAIN ideas :
        \/ topics[t].level = 1 /\ ideas[i].topic_id = t
        \/ topics[t].level = 2 /\ topics[ideas[i].subtopic_id].parent = t
        \/ topics[t].level = 3 /\ ideas[i].subtopic_id = t}

\* C4: after sequential ingests, n_points of every topic is the number of
\* ideas routed to it at its level and centroid * n_points is the sum of
\* their embeddings
C4_CentroidIsMean ==
    \A t \in DOMAIN topics :
        /\ topics[t].n_points = Cardinality(RoutedTo(t))
        /\ \A k \in 1..2 :
              topics[t].centroid.num[k] * topics[t].n_points
                  = SumEmbeddings(ideas, RoutedTo(t))[k] * topics[t].centroid.den

\* a level-3 topic holds three ideas, one of which the oracle named otherwise
\* (it joined as the nearest topic), and a duplicate was served after them
C4_Witness ==
    /\ resp.endpoint = "/ideas"
    /\ resp.outcome = "duplicate"
    /\ \E t \in DOMAIN topics :
          /\ topics[t].level = 3
          /\ topics[t].n_points = 3
          /\ \E i \in RoutedTo(t) : Lower(ideas[i].metadata.level3) # Lower(topics[t].name)

\* C5: when the embedding call or the classification fails during the ingest
\* of a new text, the request fails and the committed state is unchanged
C5_OracleFailureNoChange ==
    [][(/\ resp'.endpoint = "/ideas"
        /\ schema_accepts(resp'.text)
        /\ LengthOk(resp'.text)
        /\ SameKey(ideas, resp'.text) = {}
        /\ (resp'.embedding = Fail \/ resp'.result = Fail))
       => /\ resp'.status # 200
          /\ resp'.outcome = "OracleError"
          /\ resp'.idea = 0
          /\ ideas' = ideas
          /\ topics' = topics
          /\ edges' = edges]_vars

\* the classification failed, after the embedding call, on a store with topics
C5_Witness ==
    /\ resp.endpoint = "/ideas"
    /\ resp.outcome = "OracleError"
    /\ resp.result = Fail
    /\ resp.classify_calls = 1
    /\ DOMAIN topics # {}

\* C6: a text whose normalized form is shorter than 5 or longer than 320
\* characters is rejected with a validation error before any duplicate
\* lookup, oracle call or write
C6_LengthRejectedFirst ==
    [][(resp'.endpoint = "/ideas" /\ ~LengthOk(resp'.text))
       => /\ resp'.outcome \in {"ValueError", "RequestValidationError"}
          /\ resp'.status # 200
          /\ resp'.dup_lookups = 0
          /\ resp'.embed_calls = 0
          /\ resp'.classify_calls = 0
          /\ ideas' = ideas
          /\ topics' = topics
          /\ edges' = edges]_vars

\* a raw text of five characters that normalizes to three was rejected by
\* ingest_idea on a store that holds ideas
C6_Witness ==
    /\ resp.endpoint = "/ideas"
    /\ resp.text = TextPadded
    /\ resp.outcome = "ValueError"
    /\ DOMAIN ideas # {}

\* C7: POST /ideas answers 400 to every text whose normalized length is
\* outside 5..320
C7_LengthViolationIs400 ==
    (resp.endpoint = "/ideas" /\ ~LengthOk(resp.text)) => resp.status = 400

\* the stance centroid of a label the new idea of the step finds: the bucket
\* of its level-3 topic before the step, else that of the level-2 parent
PriorStanceCentroid(stance_label) ==
    OrElse(IF resp'.subtopic \in DOMAIN topics
           THEN get_stance_centroid(topics[resp'.subtopic], stance_label)
           ELSE NoValue,
           IF topics'[resp'.subtopic].parent \in DOMAIN topics
           THEN get_stance_centroid(topics[topics'[resp'.subtopic].parent], stance_label)
           ELSE NoValue)

\* the step created an idea
CreatedIdea == resp'.endpoint = "/ideas" /\ resp'.outcome = "created" /\ resp'.status = 200

\* score, label and confidence of a stored idea are those of a cosine score
ScoredAs(idea, score) ==
    /\ idea.metadata.stance_score = score
    /\ idea.stance_confidence = (IF score < 0 THEN -score ELSE score)
    /\ (idea.stance_label = "neutral") <=> (score > -stance_confidence_margin
                                              /\ score < stance_confidence_margin)
    /\ (idea.stance_label = "pro") <=> (score >= stance_confidence_margin)
    /\ (idea.stance_label = "con") <=> (score <= -stance_confidence_margin)

HintLabel(metadata_json) ==
    IF metadata_json = HintPro THEN "pro"
    ELSE IF metadata_json = HintCon THEN "con"
    ELSE "neutral"

\* C9: when the pro or the con centroid is missing at the level-3 topic and
\* its parent, the label is the normalized stance_hint (neutral when absent
\* or unrecognized) and stance_score and stance_confidence are 0
C9_StanceFromHint ==
    [][(/\ CreatedIdea
        /\ (PriorStanceCentroid("pro") = NoValue \/ PriorStanceCentroid("con") = NoValue))
       => /\ ideas'[resp'.idea].stance_label = HintLabel(resp'.metadata_json)
          /\ ideas'[resp'.idea].metadata.stance_score = 0
          /\ ideas'[resp'.idea].stance_confidence = 0]_vars

\* the first idea of an empty store came with the hint " Con" and is stored
\* as con with confidence 0
C9_Witness ==
    /\ resp.endpoint = "/ideas"
    /\ resp.outcome = "created"
    /\ resp.metadata_json = HintCon
    /\ DOMAIN ideas = {resp.idea}
    /\ ideas[resp.idea].stance_label = "con"
    /\ ideas[resp.idea].stance_confidence = 0

\* the stance a retrieval response must carry for its seed
WantedStance ==
    IF resp.endpoint = "/supportive" THEN ideas[resp.id].stance_label
    ELSE IF ideas[resp.id].stance_label = "pro" THEN "con" ELSE "pro"

\* C10: for a seed of stance pro or con, supportive returns only ideas of the
\* seed's stance and opposing only ideas of the opposite stance; every
\* returned idea is in the seed's level-1 topic and is not the seed; the
\* level-3 scope was queried with the seed's subtopic_id and that stance
C10_StanceFilteredRetrieval ==
    (/\ resp.endpoint \in {"/supportive", "/opposing"}
     /\ ideas[resp.id].stance_label \in {"pro", "con"})
    => /\ \A k \in 1..Len(resp.neighbors) :
             /\ resp.neighbors[k].id # resp.id
             /\ resp.neighbors[k].stance_label = WantedStance
             /\ ideas[resp.neighbors[k].id].stance_label = WantedStance
             /\ ideas[resp.neighbors[k].id].topic_id = ideas[resp.id].topic_id
       /\ resp.l3_query = [subtopic_id |-> ideas[resp.id].subtopic_id,
                           stance_label |-> WantedStance]

\* opposing answered a pro seed with a con idea while another pro idea of
\* the seed's level-1 topic was in the store
C10_Witness ==
    /\ resp.endpoint = "/opposing"
    /\ ideas[resp.id].stance_label = "pro"
    /\ Len(resp.neighbors) >= 1
    /\ \E i \in DOMAIN ideas \ {resp.id} :
          ideas[i].stance_label = "pro" /\ ideas[i].topic_id = ideas[resp.id].topic_id

\* C11: GET /opposing for a seed whose stance_label is neutral answers with an
\* empty list of neighbours, whatever ideas its topics hold
C11_NeutralSeedOpposingEmpty ==
    (/\ resp.endpoint = "/opposing"
     /\ ideas[resp.id].stance_label = "neutral")
    => resp.neighbors = << >>

\* the ideas other than the seed that carry the stance a retrieval asks for
\* and lie in the seed's level-3 topic, under its level-2 topic, in its
\* level-1 topic
ScopeIdeas(scope) ==
    LET seed == ideas[resp.id]
    IN {i \in DOMAIN ideas \ {resp.id} :
          /\ ideas[i].stance_label = WantedStance
          /\ CASE scope = "L3" -> ideas[i].subtopic_id = seed.subtopic_id
               [] scope = "L2" -> topics[ideas[i].subtopic_id].parent
                                     = topics[seed.subtopic_id].parent
               [] scope = "L1" -> ideas[i].topic_id = seed.topic_id}

\* C12: supportive and opposing retrieval are leaves-first: a returned idea
\* from outside the seed's level-3 topic means fewer than top_k candidates of
\* the required stance in it, a returned idea from outside its level-2 topic
\* means fewer than top_k candidates under that; so with top_k candidates in
\* the level-3 topic nothing from outside it is returned
C12_LeavesFirst ==
    (/\ resp.endpoint \in {"/supportive", "/opposing"}
     /\ (resp.endpoint = "/opposing" => ideas[resp.id].stance_label \in {"pro", "con"}))
    => /\ SeqIds(resp.neighbors) \subseteq ScopeIdeas("L1")
       /\ ~(SeqIds(resp.neighbors) \subseteq ScopeIdeas("L3"))
             => Cardinality(ScopeIdeas("L3")) < resp.top_k
       /\ ~(SeqIds(resp.neighbors) \subseteq ScopeIdeas("L2"))
             => Cardinality(ScopeIdeas("L2")) < resp.top_k
       /\ Cardinality(ScopeIdeas("L3")) >= resp.top_k
             => \A k \in 1..Len(resp.neighbors) :
                    resp.neighbors[k].subtopic_id = ideas[resp.id].subtopic_id

\* supportive answered from the level-3 topic alone although an idea of the
\* same stance in a sibling level-3 topic is nearer to the seed than the
\* idea returned
C12_Witness ==
    /\ resp.endpoint = "/supportive"
    /\ Len(resp.neighbors) = resp.top_k
    /\ Cardinality(ScopeIdeas("L3")) >= resp.top_k
    /\ \E i \in ScopeIdeas("L2") \ ScopeIdeas("L3") :
          \E k \in 1..Len(resp.neighbors) :
              cosine(ideas[i].embedding, ideas[resp.id].embedding)
                  > resp.neighbors[k].similarity

\* the rows a /relations response reports, over its three buckets
BucketRows(r) == r.supportive \o r.opposing \o r.neutral

\* the oracle calls of a /relations response that asked about the pair
CallsFor(r, src_id, dst_id) ==
    {k \in 1..Len(r.calls) : r.calls[k].src_id = src_id /\ r.calls[k].dst_id = dst_id}

\* C13: a GET /relations for a seed issues no oracle call for a pair whose
\* row is in the committed cache, leaves that row as it is and reports the
\* candidate with the cached label and confidence; a candidate whose ordered
\* pair (seed, candidate) has no row is classified by one oracle call of its
\* own, whether or not the reversed pair is cached
C13_RelationCachedOnce ==
    [][(resp'.endpoint = "/relations" /\ clock' = clock + 1 /\ resp'.id \in DOMAIN ideas)
       => /\ \A c \in DOMAIN ideas :
                <<resp'.id, c>> \in DOMAIN relations
                => /\ CallsFor(resp', resp'.id, c) = {}
                   /\ relations'[<<resp'.id, c>>] = relations[<<resp'.id, c>>]
                   /\ \A k \in 1..Len(BucketRows(resp')) :
                         BucketRows(resp')[k].id = c
                         => /\ BucketRows(resp')[k].relation_label
                                  = relations[<<resp'.id, c>>].relation_label
                            /\ BucketRows(resp')[k].relation_confidence
                                  = relations[<<resp'.id, c>>].confidence
          /\ resp'.status = 200
             => \A c \in DOMAIN ideas \ {resp'.id} :
                   (/\ ideas[c].topic_id = ideas[resp'.id].topic_id
                    /\ <<resp'.id, c>> \notin DOMAIN relations)
                   => /\ Cardinality(CallsFor(resp', resp'.id, c)) = 1
                      /\ \A k \in CallsFor(resp', resp'.id, c) :
                            relations'[<<resp'.id, c>>]
                                = classify_pair_relation(resp'.calls[k].answer)
          /\ \A p \in DOMAIN relations : relations'[p] = relations[p]]_vars

\* a second /relations for a seed was answered from the cache alone: no
\* oracle call, the candidate reported with the label of the row of
\* (seed, candidate), while the reversed pair has no row
C13_Witness ==
    /\ resp.endpoint = "/relations"
    /\ resp.status = 200
    /\ resp.calls = << >>
    /\ \E k \in 1..Len(BucketRows(resp)) :
          /\ <<resp.id, BucketRows(resp)[k].id>> \in DOMAIN relations
          /\ <<BucketRows(resp)[k].id, resp.id>> \notin DOMAIN relations
          /\ BucketRows(resp)[k].relation_label = "oppose"

\* C14: a GET /relations during which the oracle fails for a pair still
\* succeeds; the pair is reported neutral with confidence 0 and gets neither
\* a cache row nor an edge
C14_RelationOracleFailureIsNeutral ==
    (/\ resp.endpoint = "/relations"
     /\ \E k \in 1..Len(resp.calls) : resp.calls[k].answer = Fail)
    => /\ resp.status = 200
       /\ \A k \in 1..Len(resp.calls) :
             resp.calls[k].answer = Fail
             => /\ <<resp.calls[k].src_id, resp.calls[k].dst_id>> \notin DOMAIN relations
                /\ \A j \in 1..Len(BucketRows(resp)) :
                      BucketRows(resp)[j].id = resp.calls[k].dst_id
                      => /\ BucketRows(resp)[j].relation_label = "neutral"
                         /\ BucketRows(resp)[j].relation_confidence = 0

\* C15: a POST /ideas whose text is valid and has no stored duplicate calls
\* the embedding oracle exactly once, with the normalized text and nothing
\* else, and, the embedding returned, the hierarchy classifier exactly once
\* with the same text and empty topic_label and canonical_claim; the
\* classifier is not reached when the embedding call raised
C15_OracleCalledOnceWithNormalizedText ==
    [][(/\ resp'.endpoint = "/ideas"
        /\ clock' = clock + 1
        /\ schema_accepts(resp'.text)
        /\ LengthOk(resp'.text)
        /\ SameKey(ideas, resp'.text) = {})
       => /\ resp'.embed_calls = 1
          /\ resp'.oracle_calls[1] =
                [oracle |-> "embed_text", text |-> normalize_insight_text(resp'.text),
                 topic_label |-> << >>, canonical_claim |-> << >>]
          /\ resp'.embedding = Fail => Len(resp'.oracle_calls) = 1
          /\ resp'.embedding # Fail
                => /\ Len(resp'.oracle_calls) = 2
                   /\ resp'.classify_calls = 1
                   /\ resp'.oracle_calls[2] =
                         [oracle |-> "classify_topic_hierarchy",
                          text |-> normalize_insight_text(resp'.text),
                          topic_label |-> << >>, canonical_claim |-> << >>]]_vars

\* "ab  cd" was ingested as a new idea: both oracles were asked once about
\* "ab cd.", which is not the text of the request
C15_Witness ==
    /\ resp.endpoint = "/ideas"
    /\ resp.outcome = "created"
    /\ resp.text = TextB
    /\ Len(resp.oracle_calls) = 2
    /\ resp.oracle_calls[1].text # resp.text
    /\ resp.oracle_calls[1].text = ideas[resp.idea].text

\* the level-1 topics and their member ideas before a request
Level1Topics == {t \in DOMAIN topics : topics[t].level = 1}

Members(p) == {i \in DOMAIN ideas : ideas[i].topic_id = p}

\* the sum of c * log(c) over the counts c of the subtopics subs among the ideas m
RECURSIVE SubtopicCLogC(_, _)
SubtopicCLogC(subs, m) ==
    IF subs = {} THEN 0
    ELSE LET u == CHOOSE x \in subs : TRUE
             c == Cardinality({i \in m : ideas[i].subtopic_id = u})
         IN c * LnMicro[c] + SubtopicCLogC(subs \ {u}, m)

\* the entropy of the subtopic_id distribution of m is at least
\* recluster_entropy_threshold: log(n) - sum(c log c) / n >= threshold
EntropyReached(m) ==
    Cardinality(m) * LnMicro[Cardinality(m)]
            - SubtopicCLogC({ideas[i].subtopic_id : i \in m}, m)
        >= recluster_entropy_threshold * 10000 * Cardinality(m)

\* the level-2 children a request created under p
NewChildren(p) == {t \in DOMAIN topics' \ DOMAIN topics : topics'[t].parent = p}

\* the topics under p after a request, p included
SubtreeAfter(p) ==
    {t \in DOMAIN topics' :
        \/ t = p
        \/ topics'[t].parent = p
        \/ topics'[t].parent # 0 /\ topics'[topics'[t].parent].parent = p}

\* C16: a POST /jobs/recluster that succeeds re-partitions a level-1 topic
\* exactly when it has at least recluster_min_points member ideas and the
\* entropy of their subtopic_id distribution is at least
\* recluster_entropy_threshold; topics_refreshed is the number of topics
\* re-partitioned; no topic and no idea under a skipped topic is created or
\* modified
C16_ReclusterIffLargeAndMixed ==
    [][(/\ resp'.endpoint = "/jobs/recluster"
        /\ clock' = clock + 1
        /\ resp'.status = 200)
       => /\ \A p \in Level1Topics :
                /\ NewChildren(p) # {}
                      <=> (Cardinality(Members(p)) >= recluster_min_points
                           /\ EntropyReached(Members(p)))
                /\ NewChildren(p) # {}
                      => \A i \in Members(p) : ideas'[i].subtopic_id \in NewChildren(p)
                /\ NewChildren(p) = {}
                      => /\ \A t \in SubtreeAfter(p) :
                                t \in DOMAIN topics /\ topics'[t] = topics[t]
                         /\ \A i \in Members(p) : ideas'[i] = ideas[i]
          /\ resp'.topics_refreshed
                = Cardinality({p \in Level1Topics : NewChildren(p) # {}})
          /\ DOMAIN ideas' = DOMAIN ideas]_vars

\* a rebalance re-partitioned one level-1 topic of 24 or more ideas and
\* skipped another one that has ideas
C16_Witness ==
    /\ resp.endpoint = "/jobs/recluster"
    /\ resp.status = 200
    /\ resp.topics_refreshed = 1
    /\ resp.reassigned >= recluster_min_points
    /\ \E p \in Level1Topics :
          /\ Members(p) # {}
          /\ \A i \in Members(p) : topics[ideas[i].subtopic_id].level = 3

\* C17: a POST /jobs/recluster that fails part-way commits nothing: the
\* committed topics and ideas are what they were before the request
C17_FailedReclusterCommitsNothing ==
    [][(/\ resp'.endpoint = "/jobs/recluster"
        /\ clock' = clock + 1
        /\ resp'.status = 500)
       => /\ ideas' = ideas
          /\ topics' = topics
          /\ edges' = edges
          /\ relations' = relations]_vars

\* a rebalance failed after its session had re-partitioned one level-1
\* topic and had reassigned some members of a second one
C17_Witness ==
    /\ resp.endpoint = "/jobs/recluster"
    /\ resp.status = 500
    /\ resp.created > MinClusters
    /\ resp.reassigned > recluster_min_points
    /\ \A i \in DOMAIN ideas : topics[ideas[i].subtopic_id].level = 3

\* a POST /ideas whose text has the key of the stored idea i is served on the
\* duplicate branch: no oracle is called, the only row written is i, of which
\* only the metadata changes, to the stored map overridden key by key by the
\* incoming one; the topics returned are those of i, of level 1 and of a
\* level among `levels`
DuplicateBranch(levels) ==
    \A i \in DOMAIN ideas :
        (/\ resp'.endpoint = "/ideas"
         /\ clock' = clock + 1
         /\ schema_accepts(resp'.text)
         /\ LengthOk(resp'.text)
         /\ i \in SameKey(ideas, resp'.text))
        => /\ resp'.oracle_calls = << >>
           /\ resp'.embed_calls = 0
           /\ resp'.classify_calls = 0
           /\ topics' = topics
           /\ edges' = edges
           /\ relations' = relations
           /\ DOMAIN ideas' = DOMAIN ideas
           /\ \A j \in DOMAIN ideas \ {i} : ideas'[j] = ideas[j]
           /\ ideas'[i] =
                 [ideas[i] EXCEPT !.metadata =
                     IF resp'.metadata_json = NoValue THEN ideas[i].metadata
                     ELSE [k \in DOMAIN ideas[i].metadata \cup DOMAIN resp'.metadata_json |->
                              IF k \in DOMAIN resp'.metadata_json
                              THEN resp'.metadata_json[k] ELSE ideas[i].metadata[k]]]
           /\ resp'.idea = i
           /\ resp'.topic = ideas[i].topic_id
           /\ topics[resp'.topic].level = 1
           /\ resp'.subtopic = ideas[i].subtopic_id
           /\ topics[resp'.subtopic].level \in levels

\* C18 as amended: on the duplicate branch ingest calls no oracle and its
\* only write is the metadata merge (incoming keys override, the other keys
\* keep their values, no incoming metadata writes nothing); the topics
\* returned are those of the idea's topic_id and subtopic_id: its level-1
\* topic and its level-3 topic, or the level-2 cluster a rebalance moved it to
C18_DuplicateOnlyMergesMetadata == [][DuplicateBranch({2, 3})]_vars

\* after a rebalance, the text of a seeded idea was posted again with the
\* hint "con": the stored hint was overridden, the other keys and the stance
\* label kept, and the subtopic returned is a level-2 cluster
C18_Witness ==
    /\ resp.endpoint = "/ideas"
    /\ resp.outcome = "duplicate"
    /\ resp.oracle_calls = << >>
    /\ resp.metadata_json = HintCon
    /\ ideas[resp.idea].metadata.stance_hint = HintCon.stance_hint
    /\ ideas[resp.idea].metadata.level3 = <<"c">>
    /\ ideas[resp.idea].stance_label = "pro"
    /\ resp.subtopic = ideas[resp.idea].subtopic_id
    /\ topics[resp.subtopic].level = 2

\* C18 as stated: ... the returned topics are the existing idea's level-1
\* and level-3 topics
C18_DuplicateReturnsLevel3 == [][DuplicateBranch({3})]_vars

\* C19: normalize_insight_text is idempotent, and its result has no
\* leading, trailing or repeated whitespace and ends in ".", "!" or "?"
C19_NormalizeIdempotent ==
    [][resp'.endpoint = "normalize_insight_text"
       => /\ resp'.text # << >>
          /\ IsTerminator(resp'.text[Len(resp'.text)])
          /\ ~IsWs(resp'.text[1])
          /\ \A i \in 1..Len(resp'.text) : resp'.text[i] # "\t"
          /\ \A i \in 1..(Len(resp'.text) - 1) :
                ~(resp'.text[i] = " " /\ resp'.text[i + 1] = " ")
          /\ resp.endpoint = "normalize_insight_text" => resp'.text = resp.text]_vars

\* a text with a space inside was normalized a second time and came back
\* as it was
C19_Witness ==
    /\ resp.endpoint = "normalize_insight_text"
    /\ resp.input = resp.text
    /\ resp.text = <<"a", " ", "a", ".">>

\* C20: the duplicate key of a text is
\* lower(collapse_ws(trim(strip_trailing_terminators(text)))); it never ends
\* in whitespace, so "a b ." has the key of "a b"
C20_KeyTrimmedAfterTerminators ==
    resp.endpoint = "insight_text_key"
        => /\ resp.text = Lower(CollapseWs(Strip(StripTrailingTerminators(resp.input))))
           /\ resp.text = << >> \/ ~IsWs(resp.text[Len(resp.text)])

\* C21: every topic has a level among 1, 2 and 3; a level-1 topic has no
\* parent, and a topic of level k > 1 has a stored parent of level k - 1
C21_TopicTree ==
    \A t \in DOMAIN topics :
        /\ topics[t].level \in {1, 2, 3}
        /\ topics[t].level = 1 => topics[t].parent = 0
        /\ topics[t].level > 1
              => /\ topics[t].parent \in DOMAIN topics
                 /\ topics[topics[t].parent].level = topics[t].level - 1

\* a rebalance has emptied a level-2 topic that keeps its level-3 children
\* and has created level-2 children without children of their own, and an
\* ingest after it has created a level-3 topic
C21_Witness ==
    /\ resp.endpoint = "/ideas"
    /\ resp.status = 200
    /\ \E old, new \in DOMAIN topics :
          /\ topics[old].level = 2 /\ topics[old].n_points = 0
          /\ \E c \in DOMAIN topics : topics[c].parent = old
          /\ topics[new].level = 2 /\ topics[new].n_points > 0
          /\ topics[new].parent = topics[old].parent
          /\ \A c \in DOMAIN topics : topics[c].parent # new
    /\ \E t3 \in DOMAIN topics :
          /\ topics[t3].level = 3
          /\ \A i \in DOMAIN ideas : ideas[i].subtopic_id = t3 => i = resp.idea
          /\ resp.idea \in DOMAIN ideas /\ ideas[resp.idea].subtopic_id = t3

\* C22: edges come in mirrored pairs: with an edge (a, b) there is the edge
\* (b, a) of the same edge_type and the same weight, and no edge has
\* src = dst
C22_EdgesMirrored ==
    \A e \in DOMAIN edges :
        /\ e[1] # e[2]
        /\ <<e[2], e[1]>> \in DOMAIN edges
        /\ edges[<<e[2], e[1]>>] = edges[e]

\* a relation retrieval has overwritten the similarity edges that the ingest
\* wrote between two ideas of one level-1 topic, and other similarity edges
\* are left
C22_Witness ==
    /\ resp.endpoint = "/relations"
    /\ resp.status = 200
    /\ \E e \in DOMAIN edges :
          /\ edges[e].edge_type \in {"support", "oppose"}
          /\ e[1] = resp.id
          /\ ideas[e[1]].topic_id = ideas[e[2]].topic_id
    /\ \E e \in DOMAIN edges : edges[e].edge_type = "idea_similarity"

\* the columns of an idea that no request rewrites
Fixed(idea) ==
    <<idea.text, idea.embedding, idea.topic_id, idea.stance_label,
      idea.stance_confidence, idea.created_at>>

\* C23: no request deletes a stored idea or changes its id, text, embedding,
\* topic_id, stance_label, stance_confidence or created_at; its metadata
\* changes only by the merge of a duplicate ingest of that idea, its
\* subtopic_id and cluster_id only in a rebalance
C23_IdeaImmutable ==
    [][\A i \in DOMAIN ideas :
          /\ i \in DOMAIN ideas'
          /\ Fixed(ideas'[i]) = Fixed(ideas[i])
          /\ ideas'[i].metadata # ideas[i].metadata
                => /\ resp'.endpoint = "/ideas"
                   /\ resp'.outcome = "duplicate"
                   /\ resp'.idea = i
          /\ <<ideas'[i].subtopic_id, ideas'[i].cluster_id>>
                    # <<ideas[i].subtopic_id, ideas[i].cluster_id>>
                => resp'.endpoint = "/jobs/recluster"]_vars

\* a rebalance has moved an idea whose metadata a duplicate ingest had
\* merged before: the hint is the merged one, the stance label the one of
\* its creation, subtopic_id and cluster_id name a level-2 cluster
C23_Witness ==
    /\ resp.endpoint = "/jobs/recluster"
    /\ resp.status = 200
    /\ \E i \in DOMAIN ideas :
          /\ "stance_hint" \in DOMAIN ideas[i].metadata
          /\ ideas[i].metadata.stance_hint = HintCon.stance_hint
          /\ ideas[i].stance_label = "pro"
          /\ topics[ideas[i].subtopic_id].level = 2
          /\ ideas[i].cluster_id = UuidStr(ideas[i].subtopic_id)
          /\ ideas[i].created_at = 0

\* the commit of worker w: the idea of its session is persisted as built;
\* every stored topic that the session matched gets the n_points the session
\* computed from the row it read, which is the committed value plus 1, or
\* the committed value itself when the other session committed its update of
\* the row after this session read it (the lost update)
CommitKeepsCounts(w) ==
    (sess[w].pc = "flushed" /\ sess'[w].pc = "done")
    => /\ sess[w].idea \in DOMAIN ideas'
       /\ ideas'[sess[w].idea] = sess[w].row
       /\ \A t \in DOMAIN sess[w].writes \cap DOMAIN topics :
             /\ topics'[t].n_points = sess[w].writes[t].n_points
             /\ topics'[t].n_points \in {topics[t].n_points, topics[t].n_points + 1}

\* C24: two concurrent ingests of different texts that match the same stored
\* topic are both persisted; the topic's n_points ends at its old value plus
\* 2, or plus 1 when both read the row before either wrote; n_points is
\* never decreased, never exceeds the number of ideas routed to the topic
\* and undercounts them by at most the lost sample
C24_LostUpdateLosesOneSample ==
    /\ [][\A w \in Workers : CommitKeepsCounts(w)]_vars
    /\ [][\A t \in DOMAIN topics : topics'[t].n_points >= topics[t].n_points]_vars
    /\ [](\A t \in DOMAIN topics :
            /\ topics[t].n_points <= Cardinality(RoutedTo(t))
            /\ topics[t].n_points >= Cardinality(RoutedTo(t)) - 1)

\* after a first ingest two workers ingested different texts at once, both
\* matched its level-1 topic and both are persisted; the topic has three
\* ideas and n_points 2
C24_Witness ==
    /\ \A w \in Workers :
          /\ sess[w].pc = "done"
          /\ sess[w].status = 200
          /\ sess[w].outcome = "created"
    /\ \E v, w \in Workers : sess[v].idea # sess[w].idea
    /\ \E t \in DOMAIN topics :
          /\ topics[t].level = 1
          /\ \A w \in Workers : ideas[sess[w].idea].topic_id = t
          /\ Cardinality(RoutedTo(t)) = 3
          /\ topics[t].n_points = 2

\* the same state without the loss: n_points 3
C24_WitnessNoLoss ==
    /\ \A w \in Workers :
          /\ sess[w].pc = "done"
          /\ sess[w].status = 200
          /\ sess[w].outcome = "created"
    /\ \E v, w \in Workers : sess[v].idea # sess[w].idea
    /\ \E t \in DOMAIN topics :
          /\ topics[t].level = 1
          /\ \A w \in Workers : ideas[sess[w].idea].topic_id = t
          /\ Cardinality(RoutedTo(t)) = 3
          /\ topics[t].n_points = 3

\* C25: a relations request for an id that matches no idea is answered 404
\* and changes no state
C25_MissingIdeaIs404 ==
    [][(/\ resp'.endpoint = "/relations"
        /\ clock' = clock + 1
        /\ resp'.id \notin DOMAIN ideas)
       => /\ resp'.status = 404
          /\ store' = store
          /\ relations' = relations]_vars

\* the name of a level: the trimmed field, or the fallback when it is empty
NameOr(field, fallback) == IF Strip(field) = << >> THEN fallback ELSE Strip(field)

\* C26: the hierarchy classification returns three non-empty names of at
\* most 80, 80 and 120 characters: the oracle's trimmed field cut to the
\* limit, an empty level1 becomes "general", an empty level2 becomes the
\* level-1 name and an empty level3 becomes the level-2 name
C26_HierarchyNames ==
    resp.endpoint = "_classify_topic_hierarchy"
    => /\ \A k \in 1..3 : resp.hierarchy[k] # << >>
       /\ Len(resp.hierarchy[1]) <= TopicNameMaxLen
       /\ Len(resp.hierarchy[2]) <= TopicNameMaxLen
       /\ Len(resp.hierarchy[3]) <= LeafNameMaxLen
       /\ resp.hierarchy[1] = Take(NameOr(resp.result.level1, General), TopicNameMaxLen)
       /\ resp.hierarchy[2]
             = Take(NameOr(resp.result.level2, resp.hierarchy[1]), TopicNameMaxLen)
       /\ resp.hierarchy[3]
             = Take(NameOr(resp.result.level3, resp.hierarchy[2]), LeafNameMaxLen)

\* the topics of the scope of the call answered by resp', before the call
UpsertScope ==
    {t \in DOMAIN topics : /\ topics[t].level = resp'.level
                            /\ topics[t].parent = resp'.parent_topic_id}

\* topic t got one running-mean update with the embedding of the call and
\* nothing else changed
UpdatedOnce(t) ==
    /\ DOMAIN topics' = DOMAIN topics
    /\ \A u \in DOMAIN topics \ {t} : topics'[u] = topics[u]
    /\ topics'[t].n_points = topics[t].n_points + 1
    /\ \A k \in 1..2 :
          topics'[t].centroid.num[k] * topics[t].centroid.den * (topics[t].n_points + 1)
              = (topics[t].centroid.num[k] * topics[t].n_points
                     + resp'.embedding[k] * topics[t].centroid.den)
                  * topics'[t].centroid.den
    /\ [topics'[t] EXCEPT !.centroid = 0, !.n_points = 0]
          = [topics[t] EXCEPT !.centroid = 0, !.n_points = 0]

\* C27: _upsert_topic_level resolves in strict order within the scope
\* (level, parent): a topic of the given name, ignoring case, is used even
\* when another topic of the scope is more similar; otherwise the nearest
\* topic of the scope is used if and only if its cosine similarity is at
\* least the threshold of the level; otherwise a topic is created with
\* centroid = embedding and n_points = 1.  A matched topic gets exactly one
\* running-mean update, and no topic outside the scope is returned or changed
C27_UpsertOrder ==
    [][(resp'.endpoint = "_upsert_topic_level" /\ clock' = clock + 1)
       => LET named == {t \in UpsertScope : Lower(topics[t].name) = Lower(resp'.name)}
              near == {t \in UpsertScope :
                          CentroidSim(resp'.embedding, topics[t].centroid)
                              >= LevelThreshold(resp'.level)}
          IN /\ named # {}
                   => resp'.id \in named /\ UpdatedOnce(resp'.id)
             /\ (named = {} /\ near # {})
                   => /\ resp'.id \in near
                      /\ \A t \in UpsertScope :
                            CentroidSim(resp'.embedding, topics[t].centroid)
                                <= CentroidSim(resp'.embedding, topics[resp'.id].centroid)
                      /\ UpdatedOnce(resp'.id)
             /\ (named = {} /\ near = {})
                   => /\ resp'.id \notin DOMAIN topics
                      /\ DOMAIN topics' = DOMAIN topics \cup {resp'.id}
                      /\ \A u \in DOMAIN topics : topics'[u] = topics[u]
                      /\ topics'[resp'.id]
                            = [level |-> resp'.level, name |-> resp'.name,
                               centroid |-> [num |-> resp'.embedding, den |-> 1],
                               n_points |-> 1, parent |-> resp'.parent_topic_id,
                               stance |-> EmptyMap]]_vars

\* a call was resolved by the name, in another case, although a sibling
\* has the embedding of the call as its centroid; a topic of the same name
\* under another parent is left alone
C27_Witness ==
    /\ resp.endpoint = "_upsert_topic_level"
    /\ resp.level = 2
    /\ topics[resp.id].name # resp.name
    /\ Lower(topics[resp.id].name) = Lower(resp.name)
    /\ topics[resp.id].n_points = 2
    /\ \E t \in DOMAIN topics \ {resp.id} :
          /\ topics[t].level = resp.level
          /\ topics[t].parent = resp.parent_topic_id
          /\ CentroidSim(resp.embedding, topics[t].centroid) = 100
          /\ CentroidSim(resp.embedding, topics[resp.id].centroid) < 100

\* the ids of the rows of scope k (3: same level-3 topic, 2: same level-1
\* topic and same level-2 topic, 1: same level-1 topic) that the neighbour
\* search of the idea just created fetched, with the limit max(6, top_k)
ScopeResult(k) ==
    LET n == resp'.idea
        needed == IF topic_neighbor_top_k > NeighborFloor
                  THEN topic_neighbor_top_k ELSE NeighborFloor
        rows == nearest_ideas_with_filters(ideas', resp'.embedding, n, needed,
                    IF k = 3 THEN {} ELSE {resp'.topic},
                    IF k = 2 THEN UuidStr(topics'[resp'.subtopic].parent) ELSE NoValue,
                    IF k = 3 THEN resp'.subtopic ELSE 0)
    IN {rows[j].id : j \in 1..Len(rows)}

\* the scopes merged leaves first, until max(6, top_k) rows are there
MergedScopes ==
    LET needed == IF topic_neighbor_top_k > NeighborFloor
                  THEN topic_neighbor_top_k ELSE NeighborFloor
    IN IF Cardinality(ScopeResult(3)) >= needed THEN ScopeResult(3)
       ELSE IF Cardinality(ScopeResult(3) \cup ScopeResult(2)) >= needed
       THEN ScopeResult(3) \cup ScopeResult(2)
       ELSE ScopeResult(3) \cup ScopeResult(2) \cup ScopeResult(1)

\* the ideas the idea just created has edges to
NeighborsOfNew == {e[2] : e \in {d \in DOMAIN edges' : d[1] = resp'.idea}}

\* the neighbours are topic_neighbor_top_k most similar ideas of pool
TopOf(pool) ==
    /\ NeighborsOfNew \subseteq pool
    /\ resp'.idea \notin NeighborsOfNew
    /\ Cardinality(NeighborsOfNew)
          = (IF Cardinality(pool) < topic_neighbor_top_k
             THEN Cardinality(pool) ELSE topic_neighbor_top_k)
    /\ \A a \in NeighborsOfNew, b \in pool \ NeighborsOfNew :
          cosine(resp'.embedding, ideas'[a].embedding)
              >= cosine(resp'.embedding, ideas'[b].embedding)
    /\ \A a \in NeighborsOfNew :
          /\ edges'[<<resp'.idea, a>>].edge_type = "idea_similarity"
          /\ edges'[<<a, resp'.idea>>] = edges'[<<resp'.idea, a>>]

NewIdeaPersisted ==
    /\ resp'.endpoint = "/ideas"
    /\ clock' = clock + 1
    /\ resp'.status = 200
    /\ resp'.outcome = "created"

\* C28 as amended: the neighbours that get similarity edges are the
\* topic_neighbor_top_k most similar ideas of the scope results merged
\* leaves first (same level-3 topic; then same level-1 and level-2 topic;
\* then same level-1 topic), each fetched with limit max(6, top_k), where a
\* later scope is added only while fewer than max(6, top_k) ideas are
\* merged; at most top_k neighbours, never the new idea itself
C28_NeighborsLeavesFirst == [][NewIdeaPersisted => TopOf(MergedScopes)]_vars

\* an idea joined a level-3 topic of 8 ideas by its name; they are its
\* neighbours although 3 ideas of a sibling topic have its embedding
C28_Witness ==
    /\ resp.endpoint = "/ideas"
    /\ resp.outcome = "created"
    /\ Cardinality({e \in DOMAIN edges : e[1] = resp.idea}) = topic_neighbor_top_k
    /\ \A e \in DOMAIN edges :
          e[1] = resp.idea => ideas[e[2]].subtopic_id = resp.subtopic
    /\ \E i \in DOMAIN ideas :
          /\ i # resp.idea
          /\ ideas[i].topic_id = resp.topic
          /\ ideas[i].embedding = resp.embedding
          /\ <<resp.idea, i>> \notin DOMAIN edges

\* C28 as stated: the neighbours are the topic_neighbor_top_k most similar
\* ideas of the deduplicated union of the three scope results
C28_NeighborsOfUnion ==
    [][NewIdeaPersisted
       => TopOf(ScopeResult(3) \cup ScopeResult(2) \cup ScopeResult(1))]_vars

\* C29: a newly persisted idea has topic_id = the level-1 topic, subtopic_id
\* = the level-3 topic and metadata.mid_topic_id = the id of the level-2
\* topic between them, with metadata.topic_path and metadata.stance_score as
\* the pipeline computed them, whatever metadata the client supplied
C29_AnchorsAsComputed ==
    [][NewIdeaPersisted
       => LET idea == ideas'[resp'.idea]
              id3 == idea.subtopic_id
              id2 == topics'[id3].parent
              id1 == idea.topic_id
          IN /\ id1 = resp'.topic /\ topics'[id1].level = 1
             /\ id3 = resp'.subtopic /\ topics'[id3].level = 3
             /\ topics'[id2].level = 2 /\ topics'[id2].parent = id1
             /\ idea.metadata.mid_topic_id = UuidStr(id2)
             /\ idea.metadata.topic_path
                   = <<topics'[id1].name, topics'[id2].name, topics'[id3].name>>
             /\ Abs(idea.metadata.stance_score) = idea.stance_confidence]_vars

\* C30 as amended: every idea references a level-1 topic through topic_id
\* and, through subtopic_id, a level-3 topic below it or, once a rebalance
\* has reassigned the idea, a level-2 child of that level-1 topic
C30_AnchorLevels ==
    \A i \in DOMAIN ideas :
        /\ ideas[i].topic_id \in DOMAIN topics
        /\ topics[ideas[i].topic_id].level = 1
        /\ ideas[i].subtopic_id \in DOMAIN topics
        /\ \/ /\ topics[ideas[i].subtopic_id].level = 3
              /\ topics[topics[ideas[i].subtopic_id].parent].parent = ideas[i].topic_id
           \/ /\ topics[ideas[i].subtopic_id].level = 2
              /\ topics[ideas[i].subtopic_id].parent = ideas[i].topic_id

\* after a rebalance and an ingest one level-1 topic has ideas whose
\* subtopic_id names a level-2 cluster and an idea whose subtopic_id names a
\* level-3 topic
C30_Witness ==
    /\ resp.endpoint = "/ideas"
    /\ resp.outcome = "created"
    /\ topics[ideas[resp.idea].subtopic_id].level = 3
    /\ \E i \in DOMAIN ideas :
          /\ ideas[i].topic_id = ideas[resp.idea].topic_id
          /\ topics[ideas[i].subtopic_id].level = 2
          /\ topics[ideas[i].subtopic_id].n_points > 0

\* C30 as stated: every idea references a level-1 topic through topic_id
\* and a level-3 topic through subtopic_id, also after rebalance runs
C30_SubtopicIsLevel3 ==
    \A i \in DOMAIN ideas :
        /\ topics[ideas[i].topic_id].level = 1
        /\ topics[ideas[i].subtopic_id].level = 3


(***************************************************************************)
(* Re-partitioning                                                         *)
(***************************************************************************)
\* the name of the idx-th child the rebalance creates under a topic named name
ClusterName(name, idx) ==
    name \o <<" ", "/", " ", "c", "l", "u", "s", "t", "e", "r", " ">>
         \o <<(<<"1", "2", "3", "4", "5", "6", "7", "8">>)[idx]>>

\* the integer nearest to the square root of n / 6, taken into 2..8
NearestRootClamped(n) ==
    LET r == CHOOSE x \in 0..n : /\ 6 * (2 * x - 1) * (2 * x - 1) < 4 * n \/ x = 0
                                 /\ 4 * n < 6 * (2 * x + 1) * (2 * x + 1)
    IN IF r < 2 THEN 2 ELSE IF r > 8 THEN 8 ELSE r

\* the level-1 topics a successful rebalance step re-partitions
Repartitioned ==
    {p \in Level1Topics : /\ resp'.endpoint = "/jobs/recluster"
                          /\ clock' = clock + 1
                          /\ resp'.status = 200
                          /\ Cardinality(Members(p)) >= recluster_min_points
                          /\ EntropyReached(Members(p))}

\* C31: a rebalance that re-partitions a parent of n members creates exactly
\* k = clamp(round(sqrt(n / 6)), 2, 8) new level-2 children, named
\* "<parent name> / cluster i" for i = 1..k; it deletes no topic, sets the
\* n_points of the parent's previous level-2 children to 0, and leaves every
\* member with subtopic_id and cluster_id naming one new child and with its
\* topic_id unchanged
C31_RepartitionCreatesK ==
    [][\A p \in Repartitioned :
          /\ Cardinality(NewChildren(p)) = NearestRootClamped(Cardinality(Members(p)))
          /\ \A t \in NewChildren(p) : topics'[t].level = 2
          /\ \A idx \in 1..NearestRootClamped(Cardinality(Members(p))) :
                Cardinality({t \in NewChildren(p) :
                                topics'[t].name = ClusterName(topics[p].name, idx)}) = 1
          /\ DOMAIN topics \subseteq DOMAIN topics'
          /\ \A t \in DOMAIN topics :
                (topics[t].level = 2 /\ topics[t].parent = p) => topics'[t].n_points = 0
          /\ \A i \in Members(p) :
                /\ ideas'[i].subtopic_id \in NewChildren(p)
                /\ ideas'[i].cluster_id = UuidStr(ideas'[i].subtopic_id)
                /\ ideas'[i].topic_id = p]_vars

\* a rebalance has split a parent of 38 ideas into three children: the third
\* one has members, and a level-2 topic that was there before is emptied
C31_Witness ==
    /\ resp.endpoint = "/jobs/recluster"
    /\ resp.status = 200
    /\ resp.created = 3
    /\ resp.reassigned >= 38
    /\ \E t \in DOMAIN topics :
          /\ topics[t].level = 2
          /\ topics[t].name = ClusterName(<<"A">>, 3)
          /\ \E i \in DOMAIN ideas : ideas[i].subtopic_id = t
                                      /\ ideas[i].cluster_id = UuidStr(t)
    /\ \E t \in DOMAIN topics :
          topics[t].level = 2 /\ topics[t].n_points = 0
                              /\ \E u \in DOMAIN topics : topics[u].parent = t


\* the ideas a step leaves assigned to the level-2 topic t
AssignedAfter(t) == {i \in DOMAIN ideas' : ideas'[i].subtopic_id = t}

\* the centroid of the new child t is the mean of the ideas assigned to it,
\* and its pro and con buckets count the assigned ideas of that stance
ChildMeanAndBuckets(t) ==
    /\ \A k \in 1..2 :
          AssignedAfter(t) # {}
              => topics'[t].centroid.num[k] * Cardinality(AssignedAfter(t))
                    = SumEmbeddings(ideas', AssignedAfter(t))[k] * topics'[t].centroid.den
    /\ \A label \in {"pro", "con"} :
          LET with == {i \in AssignedAfter(t) : ideas'[i].stance_label = label}
          IN IF with = {} THEN label \notin DOMAIN topics'[t].stance
             ELSE /\ label \in DOMAIN topics'[t].stance
                  /\ topics'[t].stance[label].n_points = Cardinality(with)
                  /\ \A k \in 1..2 :
                        topics'[t].stance[label].centroid.num[k] * Cardinality(with)
                            = SumEmbeddings(ideas', with)[k]
                                  * topics'[t].stance[label].centroid.den

\* C32: after a rebalance re-partitions a parent, each new level-2 child's
\* n_points equals the number of ideas assigned to it, its centroid is the
\* mean of their embeddings, and each of its pro and con stance buckets
\* counts exactly its assigned ideas with that stance
C32_ChildCountsAssigned ==
    [][\A p \in Repartitioned : \A t \in NewChildren(p) :
          /\ topics'[t].n_points = Cardinality(AssignedAfter(t))
          /\ ChildMeanAndBuckets(t)]_vars

\* what the rebalance leaves instead: n_points is twice the number of ideas
\* assigned, the centroid and the stance buckets are as stated
C32_ChildCountsTwice ==
    [][\A p \in Repartitioned : \A t \in NewChildren(p) :
          /\ topics'[t].n_points = 2 * Cardinality(AssignedAfter(t))
          /\ ChildMeanAndBuckets(t)]_vars


\* C33: every topic has n_points >= 1 in every reachable state, after any
\* sequence of ingests and rebalance runs
C33_NPointsPositive == \A t \in DOMAIN topics : topics[t].n_points >= 1

\* C33, as the rebalance leaves it: every level-1 and level-3 topic has
\* n_points >= 1 in every reachable state and no n_points is negative; the
\* n_points of a level-2 topic is 0 only from a rebalance step that
\* re-partitions its parent on, which empties the earlier children of the
\* parent and creates a child of 0 points for an empty cluster
C33_NPointsPositiveOutsideRepartition ==
    /\ [](\A t \in DOMAIN topics :
             /\ topics[t].n_points >= 0
             /\ topics[t].level # 2 => topics[t].n_points >= 1)
    /\ [][\A t \in DOMAIN topics' :
             (topics'[t].n_points = 0 /\ (t \in DOMAIN topics => topics[t].n_points # 0))
                => /\ topics'[t].level = 2
                   /\ topics'[t].parent \in Repartitioned
                   /\ t \in NewChildren(topics'[t].parent) => AssignedAfter(t) = {}]_vars

\* an ingest was served after a rebalance that emptied a level-2 topic which
\* has level-3 topics below it and that created a child for an empty cluster
\* next to a child with members
C33_Witness ==
    /\ resp.endpoint = "/ideas"
    /\ resp.status = 200
    /\ \E t \in DOMAIN topics :
          /\ topics[t].level = 2 /\ topics[t].n_points = 0
          /\ \E u \in DOMAIN topics : topics[u].parent = t /\ topics[u].n_points >= 1
    /\ \E t, u \in DOMAIN topics :
          /\ topics[t].level = 2 /\ topics[t].n_points = 0
          /\ topics[t].name = ClusterName(topics[topics[t].parent].name, 2)
          /\ topics[u].parent = topics[t].parent
          /\ topics[u].name = ClusterName(topics[topics[t].parent].name, 1)
          /\ topics[u].n_points >= 1
          /\ \E i \in DOMAIN ideas : ideas[i].subtopic_id = u


(***************************************************************************)
(* Stance buckets                                                          *)
(***************************************************************************)
\* the ideas anchored at the level-3 topic t that are stored with the label
Labelled(t, label) ==
    {i \in DOMAIN ideas : ideas[i].subtopic_id = t /\ ideas[i].stance_label = label}

\* the n_points of the bucket of the label, 0 for an absent bucket
BucketPoints(t, label) ==
    IF label \in DOMAIN topics[t].stance THEN topics[t].stance[label].n_points ELSE 0

\* C34: after sequential ingests without rebalance, for every level-3 topic
\* and every label of pro, neutral and con, the stance bucket is absent
\* exactly when no idea has that subtopic_id and stance_label, its n_points
\* is the number of those ideas, its centroid times n_points is the sum of
\* their embeddings, and the bucket counts sum to the n_points of the topic
C34_BucketsCountMembers ==
    \A t \in DOMAIN topics :
        topics[t].level = 3
            => /\ DOMAIN topics[t].stance \subseteq STANCE_LABELS
               /\ \A label \in STANCE_LABELS :
                     /\ label \in DOMAIN topics[t].stance <=> Labelled(t, label) # {}
                     /\ BucketPoints(t, label) = Cardinality(Labelled(t, label))
                     /\ label \in DOMAIN topics[t].stance
                           => \A k \in 1..2 :
                                 topics[t].stance[label].centroid.num[k] * BucketPoints(t, label)
                                     = SumEmbeddings(ideas, Labelled(t, label))[k]
                                           * topics[t].stance[label].centroid.den
               /\ BucketPoints(t, "pro") + BucketPoints(t, "neutral") + BucketPoints(t, "con")
                     = topics[t].n_points

\* a level-3 topic holds two buckets, one of them the mean of two ideas of
\* different embeddings
C34_Witness ==
    \E t \in DOMAIN topics :
        /\ topics[t].level = 3
        /\ Cardinality(DOMAIN topics[t].stance) >= 2
        /\ \E label \in DOMAIN topics[t].stance :
              /\ topics[t].stance[label].n_points >= 2
              /\ \E i, j \in Labelled(t, label) : ideas[i].embedding # ideas[j].embedding


(***************************************************************************)
(* Edge weights                                                            *)
(***************************************************************************)
\* the edge (a, b) is after the step what it was before it
EdgeKept(a, b) ==
    /\ <<a, b>> \in DOMAIN edges' <=> <<a, b>> \in DOMAIN edges
    /\ <<a, b>> \in DOMAIN edges => edges'[<<a, b>>] = edges[<<a, b>>]

\* 0.55 * confidence + 0.45 * similarity clamped to [0, 1], in hundredths
BlendedWeight(confidence, similarity) ==
    LET w == (55 * confidence + 45 * similarity) \div 100
    IN IF w < 0 THEN 0 ELSE IF w > 100 THEN 100 ELSE w

\* a served GET /relations for a stored idea
RelationsAnswered ==
    /\ resp'.endpoint = "/relations"
    /\ clock' = clock + 1
    /\ resp'.status = 200
    /\ resp'.id \in DOMAIN ideas

\* C36: every stored edge has a weight in [0, 1]; an ingest writes
\* idea_similarity edges of weight max(similarity, 0.01); a relation
\* retrieval writes, for a support or oppose judgment, an edge of that type
\* of weight 0.55 * confidence + 0.45 * similarity clamped to [0, 1], and
\* for a neutral judgment creates or changes no edge
C36_EdgeWeights ==
    /\ [](\A e \in DOMAIN edges : edges[e].weight >= 0 /\ edges[e].weight <= 100)
    /\ [][/\ NewIdeaPersisted
             => /\ \A e \in DOMAIN edges : EdgeKept(e[1], e[2])
                /\ \A e \in DOMAIN edges' \ DOMAIN edges :
                      /\ resp'.idea \in {e[1], e[2]}
                      /\ edges'[e].edge_type = "idea_similarity"
                      /\ edges'[e].weight
                            = LET sim == cosine(ideas'[e[1]].embedding, ideas'[e[2]].embedding)
                              IN IF sim > 1 THEN sim ELSE 1
          /\ RelationsAnswered
             => \A a, b \in DOMAIN ideas :
                   IF /\ resp'.id \in {a, b}
                      /\ a # b
                      /\ ideas[a].topic_id = ideas[b].topic_id
                      /\ relations'[<<resp'.id, CHOOSE c \in {a, b} : c # resp'.id>>].relation_label
                            \in {"support", "oppose"}
                   THEN LET rel == relations'[<<resp'.id, CHOOSE c \in {a, b} : c # resp'.id>>]
                        IN /\ <<a, b>> \in DOMAIN edges'
                           /\ edges'[<<a, b>>].edge_type = rel.relation_label
                           /\ edges'[<<a, b>>].weight
                                 = BlendedWeight(rel.confidence,
                                       cosine(ideas[a].embedding, ideas[b].embedding))
                   ELSE EdgeKept(a, b)]_vars

\* a relation retrieval judged one neighbour of the seed as opposing with a
\* weight clamped to 0, kept the similarity edge to a neighbour it judged
\* neutral, and an ingest stored an edge at the floor 0.01
C36_Witness ==
    /\ resp.endpoint = "/relations"
    /\ resp.status = 200
    /\ \E b \in DOMAIN ideas :
          /\ <<resp.id, b>> \in DOMAIN edges
          /\ edges[<<resp.id, b>>] = [weight |-> 0, edge_type |-> "oppose"]
          /\ cosine(ideas[resp.id].embedding, ideas[b].embedding) < 0
    /\ \E b \in DOMAIN ideas :
          /\ <<resp.id, b>> \in DOMAIN relations
          /\ relations[<<resp.id, b>>].relation_label = "neutral"
          /\ <<resp.id, b>> \in DOMAIN edges
          /\ edges[<<resp.id, b>>].edge_type = "idea_similarity"
    /\ \E e \in DOMAIN edges :
          /\ edges[e] = [weight |-> 1, edge_type |-> "idea_similarity"]
          /\ cosine(ideas[e[1]].embedding, ideas[e[2]].embedding) < 0


(***************************************************************************)
(* Relation edges and the cache                                            *)
(***************************************************************************)
\* C40: in every reachable state every edge of type support or oppose
\* between ideas a and b is backed by a cached relation row for (a, b) or
\* for (b, a) that carries the label of the edge, and a and b have the same
\* level-1 topic_id
C40_RelationEdgesBacked ==
    \A e \in DOMAIN edges :
        edges[e].edge_type \in {"support", "oppose"}
            => /\ \E p \in {e, <<e[2], e[1]>>} :
                     /\ p \in DOMAIN relations
                     /\ relations[p].relation_label = edges[e].edge_type
               /\ e[1] \in DOMAIN ideas /\ e[2] \in DOMAIN ideas
               /\ ideas[e[1]].topic_id = ideas[e[2]].topic_id
               /\ ideas[e[1]].topic_id # 0

\* the two directions of a pair were judged differently: the edges carry the
\* label of the later row, (b, a), not the one of (a, b); an idea of another
\* level-1 topic is stored
C40_Witness ==
    /\ \E a, b \in DOMAIN ideas :
          /\ <<a, b>> \in DOMAIN relations /\ <<b, a>> \in DOMAIN relations
          /\ relations[<<a, b>>].relation_label = "support"
          /\ relations[<<b, a>>].relation_label = "oppose"
          /\ <<a, b>> \in DOMAIN edges
          /\ edges[<<a, b>>].edge_type = "oppose"
    /\ \E a, b \in DOMAIN ideas : ideas[a].topic_id # ideas[b].topic_id


(***************************************************************************)
(* Topic names                                                             *)
(***************************************************************************)
\* C39: in every reachable state after sequential ingests and rebalance
\* runs, no two topics of the same level and the same parent have names
\* that are equal ignoring case
C39_SiblingNamesDistinct ==
    \A t, u \in DOMAIN topics :
        (t # u /\ topics[t].level = topics[u].level /\ topics[t].parent = topics[u].parent)
            => Lower(topics[t].name) # Lower(topics[u].name)

\* the same for the topics of levels 1 and 3, which only ingests create
C39_IngestedNamesDistinct ==
    \A t, u \in DOMAIN topics :
        (t # u /\ topics[t].level = topics[u].level /\ topics[t].parent = topics[u].parent
               /\ topics[t].level # 2)
            => Lower(topics[t].name) # Lower(topics[u].name)


(***************************************************************************)
(* Legacy rows                                                             *)
(***************************************************************************)
\* the stored ideas with the key of the text that are legacy rows: the
\* level-1 topic or the level-3 topic does not resolve
LegacyHits(text) ==
    {i \in SameKey(ideas, text) :
        \/ ideas[i].subtopic_id \notin DOMAIN topics
        \/ ideas[i].topic_id \notin DOMAIN topics}

\* a POST /ideas of a valid text whose duplicate key finds a legacy row,
\* with both oracles answering
LegacyIngest ==
    /\ resp'.endpoint = "/ideas"
    /\ clock' = clock + 1
    /\ schema_accepts(resp'.text)
    /\ LengthOk(resp'.text)
    /\ LegacyHits(resp'.text) # {}
    /\ LegacyHits(resp'.text) = SameKey(ideas, resp'.text)
    /\ resp'.embedding # Fail
    /\ resp'.result # Fail

\* C37: when the idea found by the duplicate key is a legacy row, ingest
\* does not return it: it goes through the regular path and persists a new
\* idea for the text, which it returns
C37_LegacyIngestedAnew ==
    [][LegacyIngest
       => /\ resp'.status = 200
          /\ resp'.idea \notin DOMAIN ideas
          /\ resp'.idea \in DOMAIN ideas'
          /\ insight_text_key(ideas'[resp'.idea].text) = RequestKey(resp'.text)]_vars

\* what the request does instead: the regular path is taken (both oracles
\* are called), the flush of the new row is refused by the unique index, the
\* client gets 500 and nothing is committed, the metadata merge included
C37_LegacyIngestRefused ==
    [][LegacyIngest
       => /\ resp'.status = 500
          /\ resp'.outcome = "IntegrityError"
          /\ resp'.embed_calls = 1
          /\ resp'.classify_calls = 1
          /\ ideas' = ideas
          /\ topics' = topics
          /\ edges' = edges]_vars


(***************************************************************************)
(* Retrieval results                                                       *)
(***************************************************************************)
\* C35: retrieve_supportive, retrieve_opposing and retrieve_nearby return at
\* most top_k rows, no two of them with the same id or the same normalized
\* text key, never the seed, and no row has an embedding field; they write
\* nothing to ideas, topics, edges or the relation cache
C35_RetrievalRowsClean ==
    /\ [](resp.endpoint \in {"/supportive", "/opposing", "/nearby"}
            => /\ Len(resp.neighbors) <= resp.top_k
               /\ \A j, k \in 1..Len(resp.neighbors) :
                     j # k => /\ resp.neighbors[j].id # resp.neighbors[k].id
                              /\ insight_text_key(resp.neighbors[j].text)
                                    # insight_text_key(resp.neighbors[k].text)
               /\ \A k \in 1..Len(resp.neighbors) :
                     /\ resp.neighbors[k].id # resp.id
                     /\ "embedding" \notin DOMAIN resp.neighbors[k])
    /\ [][(resp'.endpoint \in {"/supportive", "/opposing", "/nearby"} /\ clock' = clock + 1)
            => /\ ideas' = ideas
               /\ topics' = topics
               /\ edges' = edges
               /\ relations' = relations]_vars

\* /nearby answered with exactly top_k = 3 rows of more than one level-1
\* topic while more ideas were in the topics searched
C35_Witness ==
    /\ resp.endpoint = "/nearby"
    /\ resp.top_k = 3
    /\ Len(resp.neighbors) = 3
    /\ \E j, k \in 1..Len(resp.neighbors) :
          resp.neighbors[j].topic_id # resp.neighbors[k].topic_id
    /\ Cardinality({i \in DOMAIN ideas :
                        /\ i # resp.id
                        /\ \E k \in 1..Len(resp.topic_ids) :
                               ideas[i].topic_id = resp.topic_ids[k]}) > 3

\* the level-1 topics searched by the last /nearby, and the similarity of a
\* level-1 centroid to the seed of that request
Searched == {resp.topic_ids[k] : k \in 1..Len(resp.topic_ids)}

SeedSim(t) == CentroidSim(ideas[resp.id].embedding, topics[t].centroid)

\* C38: retrieve_nearby searches only within a set of level-1 topics that
\* always has the seed's own level-1 topic and otherwise only topics that
\* are among the 8 level-1 topics nearest the seed's embedding and have a
\* centroid similarity of at least fallback_similarity_floor; every idea
\* returned has its topic_id in that set
C38_NearbyScope ==
    (resp.endpoint = "/nearby" /\ resp.id \in DOMAIN ideas /\ ideas[resp.id].topic_id # 0)
        => /\ ideas[resp.id].topic_id \in Searched
           /\ \A t \in Searched \ {ideas[resp.id].topic_id} :
                 /\ t \in DOMAIN topics
                 /\ topics[t].level = 1
                 /\ SeedSim(t) >= fallback_similarity_floor
                 /\ Cardinality({u \in Level1Topics : SeedSim(u) > SeedSim(t)}) < 8
           /\ \A k \in 1..Len(resp.neighbors) : resp.neighbors[k].topic_id \in Searched

\* /nearby searched eight level-1 topics and returned an idea of another
\* topic than the seed's, while a ninth level-1 topic at or above the floor
\* was left out
C38_Witness ==
    /\ resp.endpoint = "/nearby"
    /\ resp.id \in DOMAIN ideas
    /\ Cardinality(Searched) = 8
    /\ \E t \in Level1Topics \ Searched : SeedSim(t) >= fallback_similarity_floor
    /\ \E k \in 1..Len(resp.neighbors) :
          resp.neighbors[k].topic_id # ideas[resp.id].topic_id

\* /nearby searched the seed's own topic, put first, although eight level-1
\* topics are nearer to the seed, and left out topics below the floor
C38_WitnessOwnFirst ==
    /\ resp.endpoint = "/nearby"
    /\ resp.id \in DOMAIN ideas
    /\ resp.topic_ids[1] = ideas[resp.id].topic_id
    /\ Cardinality({u \in Level1Topics : SeedSim(u) > SeedSim(ideas[resp.id].topic_id)}) >= 8
    /\ \E t \in Level1Topics \ Searched :
          SeedSim(t) < fallback_similarity_floor /\ Cardinality({u \in Level1Topics : SeedSim(u) > SeedSim(t)}) < 8

====
